---------------------------- MODULE Spec2Model ----------------------------
(***************************************************************************)
(* Dynamic-topology remesher of blenkernel/intern/dyntopo.c.               *)
(*                                                                         *)
(* The mesh, the vertex annotation table, the leaf membership tables and   *)
(* the undo log are one record `w`; every helper of dyntopo.c is an         *)
(* operator from such a record to the next one.  The driver                *)
(* BKE_pbvh_bmesh_update_topology is a small program counter `pc` that     *)
(* walks collapse -> subdivide -> cleanup, with one action per scan        *)
(* worker, per queue merge, per popped candidate and per watched vertex.   *)
(*                                                                         *)
(* Geometry is exact integer arithmetic on a grid: coordinates are         *)
(* integer triples, lengths are compared squared, and the float factors    *)
(* of the source (1.2, 1.1, 1.25, 0.05, 0.5) are applied as integer        *)
(* ratios.                                                                 *)
(***************************************************************************)
EXTENDS Integers, Sequences, FiniteSets, TLC

(***************************************************************************)
(* Bounds of the exploration.                                              *)
(***************************************************************************)
MaxCalls == 2
MaxHostOps == 2
MaxSmooth == 1

(***************************************************************************)
(* Constants of the source.                                                *)
(***************************************************************************)
DYNTOPO_NODE_NONE == -1
DYNTOPO_MAX_ITER == 4096
DEPTH_START_LIMIT == 5

\* EVEN_EDGELEN_THRESHOLD 1.2f, as the ratio 12/10
EVEN_EDGELEN_NUM == 12
EVEN_EDGELEN_DEN == 10
\* EVEN_GENERATION_SCALE 1.1f, squared, as the ratio 121/100
EVEN_GENERATION_SQ_NUM == 121
EVEN_GENERATION_SQ_DEN == 100
\* DYNTOPO_SAFE_SMOOTH_FAC 0.05f, as 1/20
SAFE_SMOOTH_DEN == 20

\* MDynTopoVert flag names
NEED_VALENCE == "NEED_VALENCE"
NEED_BOUNDARY == "NEED_BOUNDARY"
NEED_DISK_SORT == "NEED_DISK_SORT"
NEED_TRIANGULATE == "NEED_TRIANGULATE"
VALENCE_TEMP == "VALENCE_TEMP"
BOUNDARY == "BOUNDARY"
SEAM_BOUNDARY == "SEAM_BOUNDARY"
CORNER == "CORNER"
SEAM_CORNER == "SEAM_CORNER"

NeedAll == {NEED_VALENCE, NEED_BOUNDARY, NEED_DISK_SORT}
ALL_BOUNDARY == {BOUNDARY, SEAM_BOUNDARY}
ALL_CORNER == {CORNER, SEAM_CORNER}
SMOOTH_BOUNDARY == {BOUNDARY}
SMOOTH_CORNER == {CORNER}

\* PBVHNode flag names
PBVH_Leaf == "Leaf"
PBVH_UpdateTopology == "UpdateTopology"
PBVH_FullyHidden == "FullyHidden"
PBVH_RebuildNodeVerts == "RebuildNodeVerts"
PBVH_UpdateBB == "UpdateBB"
PBVH_UpdateDrawBuffers == "UpdateDrawBuffers"
PBVH_UpdateNormals == "UpdateNormals"
PBVH_UpdateTris == "UpdateTris"
PBVH_UpdateOtherVerts == "UpdateOtherVerts"
PBVH_UpdateRedraw == "UpdateRedraw"
PBVH_UpdateCurvatureDir == "UpdateCurvatureDir"

\* mode bits of BKE_pbvh_bmesh_update_topology
PBVH_Collapse == "Collapse"
PBVH_Subdivide == "Subdivide"
PBVH_Cleanup == "Cleanup"

(***************************************************************************)
(* Small vector algebra on integer triples.                                *)
(***************************************************************************)
Zero3 == <<0, 0, 0>>
add_v3(a, b) == <<a[1] + b[1], a[2] + b[2], a[3] + b[3]>>
sub_v3(a, b) == <<a[1] - b[1], a[2] - b[2], a[3] - b[3]>>
mul_v3(a, k) == <<a[1] * k, a[2] * k, a[3] * k>>
dot_v3(a, b) == a[1] * b[1] + a[2] * b[2] + a[3] * b[3]
cross_v3(a, b) ==
  <<a[2] * b[3] - a[3] * b[2], a[3] * b[1] - a[1] * b[3], a[1] * b[2] - a[2] * b[1]>>
len_squared_v3(a) == dot_v3(a, a)
len_squared_v3v3(a, b) == len_squared_v3(sub_v3(a, b))

\* truncating division toward zero, as a float-to-grid rounding
DivT(a, b) == IF a >= 0 THEN a \div b ELSE -((-a) \div b)
div_v3(a, k) == <<DivT(a[1], k), DivT(a[2], k), DivT(a[3], k)>>
mid_v3(a, b) == div_v3(add_v3(a, b), 2)

Min2(a, b) == IF a <= b THEN a ELSE b
Max2(a, b) == IF a >= b THEN a ELSE b
MinOf(S) == CHOOSE x \in S : \A y \in S : x <= y
MaxOf(S) == CHOOSE x \in S : \A y \in S : x >= y

RECURSIVE SortedSeq(_)
SortedSeq(S) ==
  IF S = {} THEN <<>> ELSE LET m == MinOf(S) IN <<m>> \o SortedSeq(S \ {m})

Range(s) == {s[i] : i \in DOMAIN s}
SeqIndex(s, x) == CHOOSE i \in DOMAIN s : s[i] = x

\* integer square root (floor), for the non-squared lengths of the driver
ISqrt(n) == CHOOSE r \in 0..(n + 1) : r * r <= n /\ (r + 1) * (r + 1) > n

(***************************************************************************)
(* The mesh inside the record w.                                           *)
(*   verts, co, no, vmask, vhflag      vertices                            *)
(*   edges (two-element sets), ehflag  edges; ev1 is e->v1, etag the set   *)
(*                                     of edges carrying BM_ELEM_TAG       *)
(*   faces, fv (vertex cycle from l_first), fno, fhflag   faces            *)
(*   mvflag, valence                   MDynTopoVert                        *)
(*   vnode, fnode                      the two owner side-tables           *)
(*   nodes                             PBVHNode: flag, bm_faces,           *)
(*                                     bm_unique_verts                     *)
(*   log                               events of the current log entry     *)
(*   crash                             a NULL leaf has been dereferenced;  *)
(*                                     the process is gone, so every loop  *)
(*                                     below stops once the flag is set    *)
(*   lastv, lastf                      last vertex and face id handed out  *)
(* Disk and radial cycles are walked in increasing id order.               *)
(***************************************************************************)
NextI(n, i) == (i % n) + 1
PrevI(n, i) == ((i + n - 2) % n) + 1

OtherVert(e, v) == CHOOSE x \in e : x /= v
BM_edge_exists(w, a, b) == a /= b /\ {a, b} \in w.edges

\* the disk cycle of v, from v->e
DiskEdges(w, v) == {e \in w.edges : v \in e}
DiskSeq(w, v) ==
  LET others == SortedSeq({OtherVert(e, v) : e \in DiskEdges(w, v)})
  IN  [i \in DOMAIN others |-> {v, others[i]}]

\* a loop is <<face, slot>>
LoopV(w, l) == w.fv[l[1]][l[2]]
LoopNext(w, l) == <<l[1], NextI(Len(w.fv[l[1]]), l[2])>>
LoopPrev(w, l) == <<l[1], PrevI(Len(w.fv[l[1]]), l[2])>>
LoopE(w, l) == {LoopV(w, l), LoopV(w, LoopNext(w, l))}
FaceLoops(w, f) == [i \in 1..Len(w.fv[f]) |-> <<f, i>>]

\* the radial cycle of e, from e->l
RadialSet(w, e) ==
  {l \in UNION {{<<f, i>> : i \in 1..Len(w.fv[f])} : f \in w.faces} : LoopE(w, l) = e}
ByFace(ls) ==
  LET fs == SortedSeq({l[1] : l \in ls})
  IN  [k \in DOMAIN fs |-> CHOOSE l \in ls : l[1] = fs[k]]
RadialSeq(w, e) == ByFace(RadialSet(w, e))
CycleNext(rs, l) == rs[NextI(Len(rs), SeqIndex(rs, l))]
RadialNext(w, l) == CycleNext(RadialSeq(w, LoopE(w, l)), l)

RECURSIVE FlattenSeq(_)
FlattenSeq(ss) == IF ss = <<>> THEN <<>> ELSE Head(ss) \o FlattenSeq(Tail(ss))

\* BM_LOOPS_OF_VERT: disk edges in order, each edge's radial loops with l->v == v
LoopsOfDisk(w, v, ds) ==
  LET AtV(l) == LoopV(w, l) = v
  IN  FlattenSeq([i \in DOMAIN ds |-> SelectSeq(RadialSeq(w, ds[i]), AtV)])
LoopsOfVert(w, v) == LoopsOfDisk(w, v, DiskSeq(w, v))
\* BM_FACES_OF_VERT
FacesOfLoops(ls) == [i \in DOMAIN ls |-> ls[i][1]]
FacesOfVertSeq(w, v) == FacesOfLoops(LoopsOfVert(w, v))
FacesOfVert(w, v) == {f \in w.faces : v \in Range(w.fv[f])}
BM_vert_face_count(w, v) == Cardinality(FacesOfVert(w, v))
BM_vert_edge_count(w, v) == Cardinality(DiskEdges(w, v))

\* BM_face_exists for a triangle, either winding
BM_face_exists(w, tri) == \E f \in w.faces : Range(w.fv[f]) = Range(tri)

\* identifiers are never reused: lastv and lastf are the last ones handed out
NewVertId(w) == w.lastv + 1
NewFaceId(w) == w.lastf + 1

Restrict(fn, S) == [x \in S |-> fn[x]]
Extend(fn, x, val) == [y \in (DOMAIN fn) \cup {x} |-> IF y = x THEN val ELSE fn[y]]

(***************************************************************************)
(* Log collaborator: the events of the current entry, in emission order.   *)
(***************************************************************************)
LogEvent(w, ev) == [w EXCEPT !.log = Append(@, ev)]
BM_log_vert_added(w, v) == LogEvent(w, [op |-> "vert_added", v |-> v, co |-> w.co[v]])
BM_log_vert_removed(w, v) == LogEvent(w, [op |-> "vert_removed", v |-> v, co |-> w.co[v]])
BM_log_vert_before_modified(w, v) ==
  LogEvent(w, [op |-> "vert_modified", v |-> v, co |-> w.co[v]])
BM_log_edge_added(w, e) == LogEvent(w, [op |-> "edge_added", e |-> e])
BM_log_edge_removed(w, e) == LogEvent(w, [op |-> "edge_removed", e |-> e])
BM_log_face_added(w, f) == LogEvent(w, [op |-> "face_added", f |-> f, vs |-> w.fv[f]])
BM_log_face_removed(w, f) == LogEvent(w, [op |-> "face_removed", f |-> f, vs |-> w.fv[f]])

(***************************************************************************)
(* BMesh kernel primitives used by dyntopo.c.                              *)
(***************************************************************************)
BM_edge_create(w, a, b, hflag) ==
  IF {a, b} \in w.edges THEN w
  ELSE [w EXCEPT !.edges = @ \cup {{a, b}},
                 !.ehflag = Extend(@, {a, b}, hflag),
                 !.ev1 = Extend(@, {a, b}, a)]

BM_face_kill(w, f) ==
  IF w.crash THEN w ELSE
  [w EXCEPT !.faces = @ \ {f},
            !.fv = Restrict(@, w.faces \ {f}),
            !.fno = Restrict(@, w.faces \ {f}),
            !.fhflag = Restrict(@, w.faces \ {f}),
            !.fnode = Restrict(@, w.faces \ {f})]

RECURSIVE KillFaces(_, _)
KillFaces(w, fs) ==
  IF fs = {} \/ w.crash THEN w
  ELSE LET f == MinOf(fs) IN KillFaces(BM_face_kill(w, f), fs \ {f})

\* BM_edge_kill: the faces of the radial cycle die with the edge
EdgeUnlink(w1, e) ==
  IF w1.crash THEN w1 ELSE
  [w1 EXCEPT !.edges = @ \ {e},
             !.ehflag = Restrict(@, w1.edges \ {e}),
             !.ev1 = Restrict(@, w1.edges \ {e}),
             !.etag = @ \ {e}]
BM_edge_kill(w, e) ==
  IF w.crash THEN w ELSE
  EdgeUnlink(KillFaces(w, {l[1] : l \in RadialSet(w, e)}), e)

RECURSIVE KillEdges(_, _)
KillEdges(w, es) ==
  IF es = {} \/ w.crash THEN w
  ELSE LET e == CHOOSE x \in es : TRUE IN KillEdges(BM_edge_kill(w, e), es \ {e})

\* BM_vert_kill: the disk cycle dies with the vertex
VertUnlink(w1, v) ==
  IF w1.crash THEN w1 ELSE
  LET vs == w1.verts \ {v}
  IN  [w1 EXCEPT !.verts = vs,
                 !.co = Restrict(@, vs),
                 !.no = Restrict(@, vs),
                 !.vmask = Restrict(@, vs),
                 !.vhflag = Restrict(@, vs),
                 !.mvflag = Restrict(@, vs),
                 !.valence = Restrict(@, vs),
                 !.vnode = Restrict(@, vs)]
BM_vert_kill(w, v) ==
  IF w.crash THEN w ELSE
  VertUnlink(KillEdges(w, DiskEdges(w, v)), v)

\* cross product of the first corner, the normal BM_face_normal_update caches
FaceNormal(w, vs) ==
  cross_v3(sub_v3(w.co[vs[2]], w.co[vs[1]]), sub_v3(w.co[vs[3]], w.co[vs[1]]))

\* BM_face_create: a new face on existing edges; attributes of the example
BM_face_create(w, f, vs, no, hflag) ==
  [w EXCEPT !.faces = @ \cup {f},
            !.fv = Extend(@, f, vs),
            !.fno = Extend(@, f, no),
            !.fhflag = Extend(@, f, hflag),
            !.fnode = Extend(@, f, DYNTOPO_NODE_NONE),
            !.lastf = Max2(@, f)]

\* BM_vert_create with default custom data
BM_vert_create(w, v, co) ==
  [w EXCEPT !.verts = @ \cup {v},
            !.co = Extend(@, v, co),
            !.no = Extend(@, v, Zero3),
            !.vmask = Extend(@, v, 0),
            !.vhflag = Extend(@, v, {}),
            !.mvflag = Extend(@, v, {}),
            !.valence = Extend(@, v, 0),
            !.vnode = Extend(@, v, DYNTOPO_NODE_NONE),
            !.lastv = Max2(@, v)]

(***************************************************************************)
(* Vertex annotation (MDynTopoVert) and leaf flags.                        *)
(***************************************************************************)
MVSet(w, v, fl) == [w EXCEPT !.mvflag[v] = @ \cup fl]
MVClear(w, v, fl) == [w EXCEPT !.mvflag[v] = @ \ fl]
NodeSet(w, n, fl) == [w EXCEPT !.nodes[n].flag = @ \cup fl]
NodeClear(w, n, fl) == [w EXCEPT !.nodes[n].flag = @ \ fl]
IsLeaf(w, n) == n \in DOMAIN w.nodes /\ PBVH_Leaf \in w.nodes[n].flag

RECURSIVE MVSetAll(_, _, _)
MVSetAll(w, vs, fl) ==
  IF vs = {} \/ w.crash THEN w
  ELSE LET v == MinOf(vs) IN MVSetAll(MVSet(w, v, fl), vs \ {v}, fl)

\* BKE_pbvh_bmesh_update_valence: recount the disk cycle, clear the flag
BKE_pbvh_bmesh_update_valence(w, v) ==
  [w EXCEPT !.valence[v] = BM_vert_edge_count(w, v), !.mvflag[v] = @ \ {NEED_VALENCE}]
\* BKE_pbvh_bmesh_check_valence: only when the flag is set
BKE_pbvh_bmesh_check_valence(w, v) ==
  IF NEED_VALENCE \in w.mvflag[v] THEN BKE_pbvh_bmesh_update_valence(w, v) ELSE w

\* bke_pbvh_update_vert_boundary: classification from the current disk cycle
BoundaryBits(w, v) ==
  LET es == DiskEdges(w, v)
      bnd == {e \in es : Cardinality(RadialSet(w, e)) < 2}
      seam == {e \in es : "SEAM" \in w.ehflag[e]}
  IN  (IF bnd /= {} THEN {BOUNDARY} ELSE {})
        \cup (IF seam /= {} THEN {SEAM_BOUNDARY} ELSE {})
        \cup (IF Cardinality(bnd) > 2 THEN {CORNER} ELSE {})
        \cup (IF Cardinality(seam) > 2 THEN {SEAM_CORNER} ELSE {})
bke_pbvh_update_vert_boundary(w, v) ==
  [w EXCEPT !.mvflag[v] =
     (@ \ (ALL_BOUNDARY \cup ALL_CORNER \cup {NEED_BOUNDARY})) \cup BoundaryBits(w, v)]
pbvh_check_vert_boundary(w, v) ==
  IF NEED_BOUNDARY \in w.mvflag[v] THEN bke_pbvh_update_vert_boundary(w, v) ELSE w

(***************************************************************************)
(* Leaf membership.                                                        *)
(***************************************************************************)
pbvh_bmesh_node_from_face(w, f) == w.fnode[f]
pbvh_bmesh_node_from_vert(w, v) == w.vnode[v]

UpdateFlagsVertCreate ==
  {PBVH_UpdateDrawBuffers, PBVH_UpdateBB, PBVH_UpdateTris, PBVH_UpdateOtherVerts}
UpdateFlagsFace ==
  {PBVH_UpdateDrawBuffers, PBVH_UpdateNormals, PBVH_UpdateTris, PBVH_UpdateOtherVerts}
UpdateFlagsVertRemove ==
  {PBVH_UpdateDrawBuffers, PBVH_UpdateBB, PBVH_UpdateTris, PBVH_UpdateNormals,
   PBVH_UpdateOtherVerts}

pbvh_bmesh_node_vert_use_count_at_most(w, node, v, count_max) ==
  Min2(Cardinality({f \in FacesOfVert(w, v) : pbvh_bmesh_node_from_face(w, f) = node}),
       count_max)

\* the node of the first face around v that is not v's owner; NONE when
\* there is none or when that face is unowned
FirstOtherNode(w, cur, fs) ==
  LET other == {i \in DOMAIN fs : pbvh_bmesh_node_from_face(w, fs[i]) /= cur}
  IN  IF other = {} THEN DYNTOPO_NODE_NONE
      ELSE pbvh_bmesh_node_from_face(w, fs[MinOf(other)])
pbvh_bmesh_vert_other_node_find(w, v) ==
  FirstOtherNode(w, pbvh_bmesh_node_from_vert(w, v), FacesOfVertSeq(w, v))

\* a transfer that forgets to take v out of the set of its old owner
TransferKeepOld(w, new_owner, v) ==
  [w EXCEPT !.vnode[v] = new_owner, !.nodes[new_owner].bm_unique_verts = @ \cup {v}]
pbvh_bmesh_vert_ownership_transfer(w, new_owner, v) ==
  LET cur == pbvh_bmesh_node_from_vert(w, v)
      w1 == IF cur /= DYNTOPO_NODE_NONE
            THEN [w EXCEPT !.nodes[cur].flag = @ \cup {PBVH_UpdateDrawBuffers, PBVH_UpdateBB},
                           !.nodes[cur].bm_unique_verts = @ \ {v}]
            ELSE w
  IN  [w1 EXCEPT !.vnode[v] = new_owner,
                 !.nodes[new_owner].bm_unique_verts = @ \cup {v},
                 !.nodes[new_owner].flag =
                    @ \cup {PBVH_UpdateDrawBuffers, PBVH_UpdateBB, PBVH_UpdateOtherVerts}]

RECURSIVE NodeSetAll(_, _, _)
NodeSetAll(w, ns, fl) ==
  IF ns = {} \/ w.crash THEN w
  ELSE LET n == MinOf(ns) IN NodeSetAll(NodeSet(w, n, fl), ns \ {n}, fl)

pbvh_bmesh_vert_remove(w, v) ==
  LET v_node == pbvh_bmesh_node_from_vert(w, v)
      w1 == IF v_node /= DYNTOPO_NODE_NONE
            THEN [w EXCEPT !.nodes[v_node].bm_unique_verts = @ \ {v},
                           !.nodes[v_node].flag = @ \cup UpdateFlagsVertRemove]
            ELSE w
      w2 == [w1 EXCEPT !.vnode[v] = DYNTOPO_NODE_NONE]
      fnodes == {pbvh_bmesh_node_from_face(w2, f) : f \in FacesOfVert(w2, v)}
                  \ {DYNTOPO_NODE_NONE}
  IN  NodeSetAll(w2, fnodes, UpdateFlagsVertRemove)

\* one corner of the check_verts loop of pbvh_bmesh_face_remove
FaceRemoveTransfer(w, f_node, v, ensure_ownership_transfer, new_node) ==
  IF new_node /= DYNTOPO_NODE_NONE
  THEN pbvh_bmesh_vert_ownership_transfer(w, new_node, v)
  ELSE IF ensure_ownership_transfer /\ BM_vert_face_count(w, v) /= 1
       THEN NodeSet(pbvh_bmesh_vert_remove(w, v), f_node, {PBVH_RebuildNodeVerts})
       ELSE w
FaceRemoveCheckVert(w, f_node, v, ensure_ownership_transfer) ==
  IF /\ pbvh_bmesh_node_vert_use_count_at_most(w, f_node, v, 2) = 1
     /\ pbvh_bmesh_node_from_vert(w, v) = f_node
  THEN FaceRemoveTransfer(w, f_node, v, ensure_ownership_transfer,
                          pbvh_bmesh_vert_other_node_find(w, v))
  ELSE w

RECURSIVE FaceRemoveCheckVerts(_, _, _, _)
FaceRemoveCheckVerts(w, f_node, vs, ensure) ==
  IF vs = <<>> \/ w.crash THEN w
  ELSE FaceRemoveCheckVerts(FaceRemoveCheckVert(w, f_node, Head(vs), ensure),
                            f_node, Tail(vs), ensure)

\* the face leaves the leaf's set and the side-table, then the log event
FaceRemoveUnlink(w1, f_node, f, log_face) ==
  IF w1.crash THEN w1 ELSE
  LET w2 == [w1 EXCEPT !.nodes[f_node].bm_faces = @ \ {f},
                       !.fnode[f] = DYNTOPO_NODE_NONE]
      w3 == IF log_face THEN BM_log_face_removed(w2, f) ELSE w2
  IN  NodeSet(w3, f_node, UpdateFlagsFace)
pbvh_bmesh_face_remove(w, f, log_face, check_verts, ensure_ownership_transfer) ==
  LET f_node == pbvh_bmesh_node_from_face(w, f)
  IN  IF f_node = DYNTOPO_NODE_NONE \/ ~IsLeaf(w, f_node) THEN w
      ELSE FaceRemoveUnlink(
             IF check_verts
             THEN FaceRemoveCheckVerts(w, f_node, w.fv[f], ensure_ownership_transfer)
             ELSE w,
             f_node, f, log_face)

\* bmesh_edge_create_log: look up or create, flags of the example, log
bmesh_edge_create_log(w, a, b, hflag) ==
  IF BM_edge_exists(w, a, b) THEN w
  ELSE BM_log_edge_added(BM_edge_create(w, a, b, hflag), {a, b})

\* bmesh_face_create_edge_log with the edges looked up or created
RECURSIVE EdgesCreateLog(_, _, _)
EdgesCreateLog(w, vs, i) ==
  IF i > Len(vs) \/ w.crash THEN w
  ELSE EdgesCreateLog(bmesh_edge_create_log(w, vs[i], vs[NextI(Len(vs), i)], {}), vs, i + 1)
bmesh_face_create_edge_log(w, f, vs, no, hflag) ==
  BM_face_create(EdgesCreateLog(w, vs, 1), f, vs, no, hflag)

RECURSIVE FaceCreateEnsureVerts(_, _, _)
FaceCreateEnsureVerts(w, node_index, vs) ==
  IF vs = <<>> \/ w.crash THEN w
  ELSE LET v == Head(vs)
           w1 == IF w.vnode[v] = DYNTOPO_NODE_NONE
                 THEN [w EXCEPT !.nodes[node_index].bm_unique_verts = @ \cup {v},
                                !.vnode[v] = node_index,
                                !.nodes[node_index].flag = @ \cup UpdateFlagsVertCreate]
                 ELSE w
       IN  FaceCreateEnsureVerts(MVSet(w1, v, NeedAll), node_index, Tail(vs))

\* pbvh_bmesh_face_create: the face f is created in leaf node_index
\* the new face enters the leaf's set and the side-table
FaceCreateLink(w1, node_index, f, vs, ensure_verts, log_face) ==
  IF w1.crash THEN w1 ELSE
  LET w2 == [w1 EXCEPT !.nodes[node_index].bm_faces = @ \cup {f},
                       !.fnode[f] = node_index,
                       !.nodes[node_index].flag = (@ \cup UpdateFlagsFace) \ {PBVH_FullyHidden}]
      w3 == IF log_face THEN BM_log_face_added(w2, f) ELSE w2
  IN  IF ensure_verts THEN FaceCreateEnsureVerts(w3, node_index, vs)
      ELSE MVSetAll(w3, Range(vs), NeedAll)
pbvh_bmesh_face_create(w, node_index, f, vs, no, hflag, ensure_verts, log_face) ==
  FaceCreateLink(bmesh_face_create_edge_log(w, f, vs, no, hflag), node_index, f, vs,
                 ensure_verts, log_face)

(***************************************************************************)
(* Edge queue: region tests, weights, scan workers.                        *)
(* The queue parameters q are center, radius, view_normal,                 *)
(* use_view_normal, mask_cb (is a mask callback installed) and limit_len.  *)
(* Long-edge values are kept in 1/16 units and short-edge values in 1/9    *)
(* units so that the mask weights (quarters) stay exact.                   *)
(***************************************************************************)
LongUnit == 16
ShortUnit == 9
\* the mask callback answers in halves: 2 - paint mask, paint mask in 0..2
MaskUnit == 2
\* priority of a collapse candidate whose mask weight is not positive
ZERO_WEIGHT_PRIORITY == 100000

mask_cb(w, v) == MaskUnit - w.vmask[v]
DYNTOPO_MASK(w, v) == w.vmask[v]

\* maskcb_get, in quarters: (w1 + w2) * 0.5 of two halves
maskcb_get(w, q, e) ==
  IF q.mask_cb THEN mask_cb(w, w.ev1[e]) + mask_cb(w, OtherVert(e, w.ev1[e])) ELSE 4

calc_weighted_edge_split(w, v1, v2) == len_squared_v3v3(w.co[v1], w.co[v2])
calc_weighted_edge_collapse(w, v1, v2) == len_squared_v3v3(w.co[v1], w.co[v2])
BM_edge_calc_length_squared(w, e) ==
  LET a == w.ev1[e] IN len_squared_v3v3(w.co[a], w.co[OtherVert(e, a)])

\* len_sq * w * w of the long scan, in 1/16
LongWeighted(w, q, e) ==
  LET s == maskcb_get(w, q, e) IN BM_edge_calc_length_squared(w, e) * s * s
\* len_sq / (w * w) of the short scan, in 1/9; only for a positive weight
ShortWeighted(w, q, e) ==
  LET s == maskcb_get(w, q, e)
  IN  (BM_edge_calc_length_squared(w, e) * 16 * ShortUnit) \div (s * s)

edge_queue_vert_in_sphere(w, q, v) ==
  len_squared_v3v3(q.center, w.co[v]) <= q.radius * q.radius

\* dist_to_tri_sphere_simple, in 1/36: corners, edge midpoints, centroid
dist_to_tri_sphere_simple(p, v1, v2, v3) ==
  LET p2 == mul_v3(p, 2)
      p3 == mul_v3(p, 3)
  IN  MinOf({36 * len_squared_v3v3(p, v1), 36 * len_squared_v3v3(p, v2),
             36 * len_squared_v3v3(p, v3),
             9 * len_squared_v3v3(p2, add_v3(v1, v2)),
             9 * len_squared_v3v3(p2, add_v3(v2, v3)),
             9 * len_squared_v3v3(p2, add_v3(v3, v1)),
             4 * len_squared_v3v3(p3, add_v3(add_v3(v1, v2), v3))})

edge_queue_tri_in_sphere(w, q, f) ==
  LET vs == w.fv[f]
  IN  dist_to_tri_sphere_simple(q.center, w.co[vs[1]], w.co[vs[2]], w.co[vs[Len(vs)]])
        <= 36 * q.radius * q.radius

\* the front-face filter on the cached face normal
BackFacing(w, q, f) == q.use_view_normal /\ dot_v3(w.fno[f], q.view_normal) < 0

\* surface_smooth_v_safe: tangential average of the disk neighbours of the
\* same boundary class, a twentieth of it added to the position
SmoothTan(w, v, v2) ==
  LET tan == sub_v3(w.co[v2], w.co[v])
      d == dot_v3(tan, w.no[v])
      nn == Max2(1, len_squared_v3(w.no[v]))
  IN  sub_v3(tan, div_v3(mul_v3(w.no[v], 99 * d), 100 * nn))

RECURSIVE SumV3(_)
SumV3(s) == IF s = <<>> THEN Zero3 ELSE add_v3(Head(s), SumV3(Tail(s)))

SmoothApply(w1, v, es) ==
  IF (w1.mvflag[v] \cap SMOOTH_CORNER) /= {} \/ Len(es) = 0 THEN w1
  ELSE [w1 EXCEPT !.co[v] =
          add_v3(@, div_v3(SumV3([i \in DOMAIN es |-> SmoothTan(w1, v, OtherVert(es[i], v))]),
                           SAFE_SMOOTH_DEN * Len(es)))]
SmoothAverage(w1, v) ==
  IF w1.crash THEN w1 ELSE
  LET bound1 == (w1.mvflag[v] \cap SMOOTH_BOUNDARY) /= {}
      SameClass(e) ==
        ((w1.mvflag[OtherVert(e, v)] \cap SMOOTH_BOUNDARY) /= {}) = bound1
  IN  SmoothApply(w1, v, SelectSeq(DiskSeq(w1, v), SameClass))
surface_smooth_v_safe(w, v) ==
  IF DiskEdges(w, v) = {} THEN w ELSE SmoothAverage(pbvh_check_vert_boundary(w, v), v)

\* edge_thread_data_insert: tag the edge, append it to the worker's buffer
edge_thread_data_insert(t, e) ==
  [t EXCEPT !.w.etag = @ \cup {e}, !.edges = Append(@, e)]

\* the radial loops walked by the expansion: from l_edge up to, not
\* including, l_end, each followed by its next and its prev loop
RadialWalk(rs, l, back) ==
  [k \in 1..(Len(rs) - 1) |-> rs[((SeqIndex(rs, l) + k - back) % Len(rs)) + 1]]
NextAndPrev(w, walk) ==
  FlattenSeq([k \in DOMAIN walk |-> <<LoopNext(w, walk[k]), LoopPrev(w, walk[k])>>])
AdjacentLoops(w, l_edge, l_end) ==
  NextAndPrev(w, RadialWalk(RadialSeq(w, LoopE(w, l_edge)), l_edge, 2))

RECURSIVE long_edge_queue_edge_add_recursive_2(_, _, _, _, _, _, _)
RECURSIVE LongAddAdjacent(_, _, _, _, _, _)
long_edge_queue_edge_add_recursive_2(t, q, l_edge, l_end, len_sq, limit_len_sq, depth) ==
  LET e == LoopE(t.w, l_edge)
  IN  IF e \in t.w.etag THEN t
      ELSE IF depth > DEPTH_START_LIMIT /\ BackFacing(t.w, q, l_edge[1]) THEN t
      ELSE LET t1 == edge_thread_data_insert(t, e)
           IN  IF RadialNext(t.w, l_edge) /= l_edge
               THEN LongAddAdjacent(t1, q, AdjacentLoops(t.w, l_edge, l_end), len_sq,
                                    (limit_len_sq * EVEN_GENERATION_SQ_NUM)
                                       \div EVEN_GENERATION_SQ_DEN,
                                    depth)
               ELSE t1
LongAddAdjacent(t, q, adj, len_sq, limit_len_sq, depth) ==
  IF adj = <<>> \/ t.w.crash THEN t
  ELSE LET l == Head(adj)
           len_sq_other == LongWeighted(t.w, q, LoopE(t.w, l))
           t1 == IF /\ len_sq_other * EVEN_EDGELEN_DEN > len_sq * EVEN_EDGELEN_NUM
                    /\ len_sq_other > limit_len_sq
                 THEN long_edge_queue_edge_add_recursive_2(
                        t, q, RadialNext(t.w, l), l, len_sq_other, limit_len_sq, depth + 1)
                 ELSE t
       IN  LongAddAdjacent(t1, q, Tail(adj), len_sq, limit_len_sq, depth)

RECURSIVE short_edge_queue_edge_add_recursive_2(_, _, _, _, _, _, _)
RECURSIVE ShortAddAdjacent(_, _, _, _, _, _)
short_edge_queue_edge_add_recursive_2(t, q, l_edge, l_end, len_sq, limit_len_sq, depth) ==
  LET e == LoopE(t.w, l_edge)
  IN  IF e \in t.w.etag THEN t
      ELSE IF depth > DEPTH_START_LIMIT /\ BackFacing(t.w, q, l_edge[1]) THEN t
      ELSE LET t1 == edge_thread_data_insert(t, e)
           IN  IF RadialNext(t.w, l_edge) /= l_edge
               THEN ShortAddAdjacent(t1, q, AdjacentLoops(t.w, l_edge, l_end), len_sq,
                                     (limit_len_sq * EVEN_GENERATION_SQ_NUM)
                                        \div EVEN_GENERATION_SQ_DEN,
                                     depth)
               ELSE t1
ShortAddAdjacent(t, q, adj, len_sq, limit_len_sq, depth) ==
  IF adj = <<>> \/ t.w.crash THEN t
  ELSE LET l == Head(adj)
           e == LoopE(t.w, l)
           len_sq_other ==
             ShortUnit * calc_weighted_edge_collapse(t.w, t.w.ev1[e], OtherVert(e, t.w.ev1[e]))
           t1 == IF /\ len_sq_other * EVEN_EDGELEN_DEN > len_sq * EVEN_EDGELEN_NUM
                    /\ len_sq_other > limit_len_sq
                 THEN short_edge_queue_edge_add_recursive_2(
                        t, q, RadialNext(t.w, l), l, len_sq_other, limit_len_sq, depth + 1)
                 ELSE t
       IN  ShortAddAdjacent(t1, q, Tail(adj), len_sq, limit_len_sq, depth)

\* first loop of both task callbacks: the edges of the leaf's faces lose
\* BM_ELEM_TAG
NodeFaces(w, n) == SortedSeq(w.nodes[n].bm_faces \cap w.faces)
ClearNodeTags(w, n) ==
  [w EXCEPT !.etag =
     @ \ UNION {{LoopE(w, <<f, i>>) : i \in 1..Len(w.fv[f])} :
                  f \in w.nodes[n].bm_faces \cap w.faces}]

\* one loop of a face in range, long scan; smooth is the set of loops at
\* which the worker's random draw exceeded 0.75
LongScanEdge(t2, q, l, len_sq, limit) ==
  IF len_sq > limit
  THEN long_edge_queue_edge_add_recursive_2(t2, q, RadialNext(t2.w, l), l, len_sq, limit, 0)
  ELSE t2
LongScanWeigh(t2, q, l) ==
  LongScanEdge(t2, q, l, LongWeighted(t2.w, q, LoopE(t2.w, l)),
               LongUnit * q.limit_len * q.limit_len)
LongScanSmooth(t1, v, draw) ==
  IF draw THEN [t1 EXCEPT !.w = surface_smooth_v_safe(t1.w, v)] ELSE t1
LongScanVal34(t, v) ==
  IF t.w.valence[v] < 5 \/ NEED_VALENCE \in t.w.mvflag[v]
  THEN [t EXCEPT !.val34 = Append(@, v)] ELSE t
LongScanLoop(t, q, l, smooth) ==
  LongScanWeigh(LongScanSmooth(LongScanVal34(t, LoopV(t.w, l)), LoopV(t.w, l), l \in smooth),
                q, l)

ShortScanLoop(t, q, l) ==
  LET e == LoopE(t.w, l)
      limit == ShortUnit * q.limit_len * q.limit_len
  IN  IF maskcb_get(t.w, q, e) = 0 THEN t
      ELSE LET len_sq == ShortWeighted(t.w, q, e)
           IN  IF len_sq < limit
               THEN short_edge_queue_edge_add_recursive_2(
                      t, q, RadialNext(t.w, l), l, len_sq, limit, 0)
               ELSE t

RECURSIVE LongScanLoops(_, _, _, _)
LongScanLoops(t, q, ls, smooth) ==
  IF ls = <<>> \/ t.w.crash THEN t
  ELSE LongScanLoops(LongScanLoop(t, q, Head(ls), smooth), q, Tail(ls), smooth)
RECURSIVE ShortScanLoops(_, _, _)
ShortScanLoops(t, q, ls) ==
  IF ls = <<>> \/ t.w.crash THEN t ELSE ShortScanLoops(ShortScanLoop(t, q, Head(ls)), q, Tail(ls))

\* second loop of the task callbacks, over the faces of the leaf
RECURSIVE LongScanFaces(_, _, _, _)
LongScanFaces(t, q, fs, smooth) ==
  IF fs = <<>> \/ t.w.crash THEN t
  ELSE LET f == Head(fs)
           t1 == IF ~BackFacing(t.w, q, f) /\ edge_queue_tri_in_sphere(t.w, q, f)
                 THEN LongScanLoops(t, q, FaceLoops(t.w, f), smooth) ELSE t
       IN  LongScanFaces(t1, q, Tail(fs), smooth)
RECURSIVE ShortScanFaces(_, _, _)
ShortScanFaces(t, q, fs) ==
  IF fs = <<>> \/ t.w.crash THEN t
  ELSE LET f == Head(fs)
           t1 == IF ~BackFacing(t.w, q, f) /\ edge_queue_tri_in_sphere(t.w, q, f)
                 THEN ShortScanLoops(t, q, FaceLoops(t.w, f)) ELSE t
       IN  ShortScanFaces(t1, q, Tail(fs))

long_edge_queue_task_cb(w, q, n, smooth) ==
  LongScanFaces([w |-> w, edges |-> <<>>, val34 |-> <<>>], q, NodeFaces(w, n), smooth)
short_edge_queue_task_cb(w, q, n) ==
  ShortScanFaces([w |-> w, edges |-> <<>>, val34 |-> <<>>], q, NodeFaces(w, n))

(***************************************************************************)
(* Insertion of existing faces into the hierarchy, re-triangulation.       *)
(***************************************************************************)
Leaves(w) == {n \in DOMAIN w.nodes : PBVH_Leaf \in w.nodes[n].flag}

UpdateFlagsInsert ==
  {PBVH_UpdateTris, PBVH_UpdateBB, PBVH_UpdateDrawBuffers, PBVH_UpdateCurvatureDir,
   PBVH_UpdateOtherVerts, PBVH_UpdateNormals, PBVH_UpdateRedraw}

RECURSIVE InsertFaceVerts(_, _, _)
InsertFaceVerts(w, ni, vs) ==
  IF vs = <<>> \/ w.crash THEN w
  ELSE LET v == Head(vs)
           ni2 == w.vnode[v]
           w1 == IF ni2 = DYNTOPO_NODE_NONE
                 THEN [w EXCEPT !.vnode[v] = ni, !.nodes[ni].bm_unique_verts = @ \cup {v}]
                 ELSE NodeSet(w, ni2, UpdateFlagsInsert)
       IN  InsertFaceVerts(w1, ni, Tail(vs))

\* bke_pbvh_insert_face_finalize: f joins leaf ni, unowned corners with it
bke_pbvh_insert_face_finalize(w, f, ni) ==
  LET w1 == [w EXCEPT !.fnode[f] = ni]
  IN  IF ~IsLeaf(w, ni) THEN w1
      ELSE InsertFaceVerts(
             NodeSet([w1 EXCEPT !.nodes[ni].bm_faces = @ \cup {f}], ni, UpdateFlagsInsert),
             ni, w.fv[f])

\* bke_pbvh_insert_face: the tree walk ends in a leaf; the first leaf here
bke_pbvh_insert_face(w, f) ==
  IF Leaves(w) = {} THEN w ELSE bke_pbvh_insert_face_finalize(w, f, MinOf(Leaves(w)))

\* BKE_pbvh_bmesh_add_face
FirstLeafOf(w, nis) ==
  LET hit == {i \in DOMAIN nis : nis[i] >= 0 /\ IsLeaf(w, nis[i])}
  IN  IF hit /= {} THEN nis[MinOf(hit)] ELSE nis[Len(nis)]
AddFaceNeighbourNode(w, f) ==
  FirstLeafOf(w, [i \in 1..Len(w.fv[f]) |-> w.fnode[RadialNext(w, <<f, i>>)[1]]])
AddFaceInsert(w, f, ni, force_tree_walk) ==
  IF force_tree_walk \/ ni < 0
  THEN bke_pbvh_insert_face(w, f)
  ELSE bke_pbvh_insert_face_finalize(w, f, ni)
AddFaceLog(w1, f, log_face) ==
  IF w1.crash THEN w1 ELSE
  IF log_face THEN BM_log_face_added(w1, f) ELSE w1
BKE_pbvh_bmesh_add_face(w, f, log_face, force_tree_walk) ==
  AddFaceLog(AddFaceInsert(w, f, AddFaceNeighbourNode(w, f), force_tree_walk), f, log_face)

BKE_pbvh_bmesh_remove_face(w, f, log_face) == pbvh_bmesh_face_remove(w, f, log_face, TRUE, TRUE)
BKE_pbvh_bmesh_remove_vertex(w, v, log_vert) ==
  LET w1 == pbvh_bmesh_vert_remove(w, v)
  IN  IF log_vert THEN BM_log_vert_removed(w1, v) ELSE w1

\* BM_face_triangulate of an n-gon as a fan from its first corner: f keeps the
\* first triangle, every further triangle is a new face on a new diagonal
RECURSIVE TriangulateFan(_, _, _, _)
TriangulateFan(w, f, vs, k) ==
  IF k + 1 > Len(vs) \/ w.crash THEN w
  ELSE LET f2 == NewFaceId(w)
           tri == <<vs[1], vs[k], vs[k + 1]>>
           isnew == ~BM_edge_exists(w, vs[1], vs[k])
           w1 == BM_edge_create(w, vs[1], vs[k], {})
           w2 == IF isnew THEN BM_log_edge_added(w1, {vs[1], vs[k]}) ELSE w1
           w3 == BM_face_create(w2, f2, tri, FaceNormal(w2, tri), w.fhflag[f])
       IN  TriangulateFan(BKE_pbvh_bmesh_add_face(w3, f2, TRUE, TRUE), f, vs, k + 1)

TriangulateFace(w1, f, vs) ==
  IF w1.crash THEN w1 ELSE
  BKE_pbvh_bmesh_add_face(
    TriangulateFan([w1 EXCEPT !.fv[f] = <<vs[1], vs[2], vs[3]>>], f, vs, 3), f, TRUE, TRUE)
\* a face of fewer than three corners only leaves its leaf, without a log event
TriangulateOrDrop(w1, f, vs) ==
  IF w1.crash THEN w1 ELSE
  IF Len(vs) < 3 THEN w1 ELSE TriangulateFace(w1, f, vs)
check_face_is_tri(w, f) ==
  IF Len(w.fv[f]) = 3 THEN w
  ELSE TriangulateOrDrop(pbvh_bmesh_face_remove(w, f, Len(w.fv[f]) >= 3, TRUE, TRUE),
                         f, w.fv[f])

RECURSIVE CheckFacesAreTris(_, _)
CheckFacesAreTris(w, fs) ==
  IF fs = <<>> \/ w.crash THEN w
  ELSE CheckFacesAreTris(IF Head(fs) \in w.faces THEN check_face_is_tri(w, Head(fs)) ELSE w,
                         Tail(fs))

CheckFanFaces(w, v, fs) ==
  CheckFacesAreTris(
    MVClear(MVSetAll(w, UNION {Range(w.fv[f]) : f \in Range(fs)}, NeedAll),
            v, {NEED_TRIANGULATE}),
    fs)
check_vert_fan_are_tris(w, v) ==
  IF NEED_TRIANGULATE \notin w.mvflag[v] THEN w
  ELSE CheckFanFaces(w, v, FacesOfVertSeq(w, v))

\* check_vert_fan_are_tris on e->v1, then on e->v2
RECURSIVE CheckFans(_, _)
CheckFans(w, vs) ==
  IF vs = <<>> \/ w.crash THEN w ELSE CheckFans(check_vert_fan_are_tris(w, Head(vs)), Tail(vs))

(***************************************************************************)
(* Single-threaded merge of the worker buffers into the heap.              *)
(* The context c carries the mesh w and the EdgeQueueContext eq:           *)
(*   heap      pairs <<e->v1, e->v2>> with their priority, lowest first,   *)
(*             equal priorities in insertion order                         *)
(*   avg_elen, max_elen, min_elen, totedge   the running length statistics *)
(*   val34     the valence watchlist                                       *)
(***************************************************************************)
NULLV == 0
ELEN_UNSET == -1

EqInit ==
  [heap |-> <<>>, avg_elen |-> 0, max_elen |-> ELEN_UNSET, min_elen |-> ELEN_UNSET,
   totedge |-> 0, val34 |-> <<>>]

\* BLI_heapsimple_insert
HeapInsert(heap, item) ==
  LET before == {i \in DOMAIN heap : heap[i].pri <= item.pri}
      k == Cardinality(before)
  IN  [i \in 1..(Len(heap) + 1) |->
         IF i <= k THEN heap[i] ELSE IF i = k + 1 THEN item ELSE heap[i - 1]]

edge_queue_insert(c, e, priority) ==
  LET w == c.w
      v1 == w.ev1[e]
      v2 == OtherVert(e, v1)
      dis == ISqrt(len_squared_v3v3(w.co[v1], w.co[v2]))
  IN  [c EXCEPT !.eq.avg_elen = @ + dis,
                !.eq.max_elen = IF @ = ELEN_UNSET THEN dis ELSE Max2(@, dis),
                !.eq.min_elen = IF @ = ELEN_UNSET THEN dis ELSE Min2(@, dis),
                !.eq.totedge = @ + 1,
                !.eq.heap = HeapInsert(@, [v1 |-> v1, v2 |-> v2, pri |-> priority])]

edge_queue_insert_val34_vert(c, v) ==
  IF VALENCE_TEMP \in c.w.mvflag[v] THEN c
  ELSE [c EXCEPT !.w = MVSet(c.w, v, {VALENCE_TEMP}), !.eq.val34 = Append(@, v)]

\* valence refresh and watchlist test shared by both merges and the driver
WatchVert(c, v) ==
  LET c1 == [c EXCEPT !.w = BKE_pbvh_bmesh_check_valence(c.w, v)]
  IN  IF c1.w.valence[v] < 5 THEN edge_queue_insert_val34_vert(c1, v) ELSE c1

RECURSIVE WatchVerts(_, _)
WatchVerts(c, vs) ==
  IF vs = <<>> \/ c.w.crash THEN c ELSE WatchVerts(WatchVert(c, Head(vs)), Tail(vs))

Val34IfLow(c, v) == IF c.w.valence[v] < 5 THEN edge_queue_insert_val34_vert(c, v) ELSE c
LongMergeValence(c, e, v1, v2) ==
  [c EXCEPT !.w = BKE_pbvh_bmesh_check_valence(
                    BKE_pbvh_bmesh_check_valence([c.w EXCEPT !.etag = @ \ {e}], v1), v2)]
LongMergeTris(c4, v1, v2) == [c4 EXCEPT !.w = CheckFans(c4.w, <<v1, v2>>)]
LongMergeQueue(c5, q, e) == edge_queue_insert(c5, e, -LongWeighted(c5.w, q, e))
LongMergeEdge(c, q, e) ==
  LET v1 == c.w.ev1[e]
      v2 == OtherVert(e, v1)
  IN  LongMergeQueue(
        LongMergeTris(Val34IfLow(Val34IfLow(LongMergeValence(c, e, v1, v2), v1), v2), v1, v2),
        q, e)

RECURSIVE LongMergeEdges(_, _, _)
LongMergeEdges(c, q, es) ==
  IF es = <<>> \/ c.w.crash THEN c ELSE LongMergeEdges(LongMergeEdge(c, q, Head(es)), q, Tail(es))

ShortMergeChecked(c1, q, e, v1, v2) ==
  IF (c1.w.mvflag[v1] \cap ALL_CORNER) /= {} \/ (c1.w.mvflag[v2] \cap ALL_CORNER) /= {}
  THEN c1
  ELSE IF (c1.w.mvflag[v1] \cap ALL_BOUNDARY) /= (c1.w.mvflag[v2] \cap ALL_BOUNDARY)
  THEN c1
  ELSE edge_queue_insert([c1 EXCEPT !.w.etag = @ \ {e}], e,
                         IF maskcb_get(c1.w, q, e) > 0 THEN ShortWeighted(c1.w, q, e)
                         ELSE ZERO_WEIGHT_PRIORITY * ShortUnit)
ShortMergeEdge(c, q, e) ==
  LET v1 == c.w.ev1[e]
      v2 == OtherVert(e, v1)
  IN  ShortMergeChecked(
        [c EXCEPT !.w = pbvh_check_vert_boundary(pbvh_check_vert_boundary(c.w, v1), v2)],
        q, e, v1, v2)

RECURSIVE ShortMergeEdges(_, _, _)
ShortMergeEdges(c, q, es) ==
  IF es = <<>> \/ c.w.crash THEN c ELSE ShortMergeEdges(ShortMergeEdge(c, q, Head(es)), q, Tail(es))

\* the loop over the thread data after the join; tds is the sequence of the
\* workers' buffers in leaf order
RECURSIVE LongMerge(_, _, _)
LongMerge(c, q, tds) ==
  IF tds = <<>> \/ c.w.crash THEN c
  ELSE LongMerge(LongMergeEdges(WatchVerts(c, Head(tds).val34), q, Head(tds).edges),
                 q, Tail(tds))
RECURSIVE ShortMerge(_, _, _)
ShortMerge(c, q, tds) ==
  IF tds = <<>> \/ c.w.crash THEN c
  ELSE ShortMerge(ShortMergeEdges(c, q, Head(tds).edges), q, Tail(tds))

\* leaves that get a scan worker
ScanLeaves(w) ==
  {n \in DOMAIN w.nodes :
     /\ PBVH_Leaf \in w.nodes[n].flag
     /\ PBVH_UpdateTopology \in w.nodes[n].flag
     /\ PBVH_FullyHidden \notin w.nodes[n].flag}

(***************************************************************************)
(* pbvh_bmesh_collapse_edge.  The running record k carries the mesh w,     *)
(* the deleted_verts map dv (killed vertex -> survivor or NULLV), the      *)
(* deleted_faces buffer df and the survivor v_conn (NULLV once killed).    *)
(***************************************************************************)
SEAM == "SEAM"

\* the seam test: both endpoints need another SEAM edge
CollapseSeamBlocked(w, e, v1, v2) ==
  /\ SEAM \in w.ehflag[e]
  /\ Cardinality({v \in {v1, v2} :
                    \E e2 \in DiskEdges(w, v) : e2 /= e /\ SEAM \in w.ehflag[e2]}) < 2

\* CustomData_bmesh_interp of the vertex block with weights 0.5, 0.5
CollapseInterp(w, v_del, v_conn) ==
  [w EXCEPT !.vmask[v_conn] = (w.vmask[v_del] + w.vmask[v_conn]) \div 2]

\* while ((l_adj = e->l)): the faces on e are flagged, untracked and killed
RECURSIVE CollapseKillAdjacent(_, _)
CollapseKillAdjacent(w, e) ==
  IF w.crash \/ RadialSet(w, e) = {} THEN w
  ELSE LET f_adj == RadialSeq(w, e)[1][1]
           ls == FaceLoops(w, f_adj)
           es == {LoopE(w, ls[i]) : i \in DOMAIN ls}
           eflag == UNION {w.ehflag[e2] : e2 \in es \ {e}}
           w1 == MVSetAll(w, Range(w.fv[f_adj]), NeedAll)
           w2 == [w1 EXCEPT !.ehflag = [e2 \in DOMAIN @ |->
                                          IF e2 \in es THEN @[e2] \cup eflag ELSE @[e2]]]
           w3 == pbvh_bmesh_face_remove(w2, f_adj, TRUE, TRUE, TRUE)
       IN  CollapseKillAdjacent(BM_face_kill(w3, f_adj), e)

\* bm_face_exists_tri_from_loop_vert: another face on the edge of
\* l_radial_first whose third corner is v_opposite; 0 when there is none
FirstWithOpposite(w, walk, v_opposite) ==
  LET hit == {k \in DOMAIN walk : LoopV(w, LoopPrev(w, walk[k])) = v_opposite}
  IN  IF hit = {} THEN 0 ELSE walk[MinOf(hit)][1]
bm_face_exists_tri_from_loop_vert(w, l_radial_first, v_opposite) ==
  FirstWithOpposite(w, RadialWalk(RadialSeq(w, LoopE(w, l_radial_first)), l_radial_first, 1),
                    v_opposite)

\* the replacement face (v_conn, a, b) of the face of l, in the same leaf
CollapseNewFace(w, l, v_del, v_conn, a, b) ==
  LET w1 == MVSetAll(w, {a, b}, {NEED_BOUNDARY, NEED_DISK_SORT, NEED_TRIANGULATE})
      w2 == bmesh_edge_create_log(w1, v_conn, a, w.ehflag[{v_del, a}])
      w3 == bmesh_edge_create_log(w2, b, v_conn, w.ehflag[{b, v_del}])
  IN  pbvh_bmesh_face_create(w3, pbvh_bmesh_node_from_face(w, l[1]), NewFaceId(w),
                             <<v_conn, a, b>>, w.fno[l[1]], w.fhflag[l[1]], FALSE, TRUE)
CollapseRewriteFace(k, l, v_del, v_conn, existing_face) ==
  IF existing_face /= 0
  THEN [k EXCEPT !.df = (IF existing_face \in Range(@) THEN @
                         ELSE Append(@, existing_face)) \o <<l[1]>>]
  ELSE IF pbvh_bmesh_node_from_face(k.w, l[1]) = DYNTOPO_NODE_NONE
  THEN [k EXCEPT !.w.crash = TRUE]
  ELSE [k EXCEPT !.w = CollapseNewFace(k.w, l, v_del, v_conn,
                                       LoopV(k.w, LoopNext(k.w, l)),
                                       LoopV(k.w, LoopPrev(k.w, l))),
                 !.df = Append(@, l[1])]
\* one loop l of v_del in the rewrite loop
CollapseRewriteLoop(k, l, v_del, v_conn) ==
  CollapseRewriteFace(k, l, v_del, v_conn,
                      bm_face_exists_tri_from_loop_vert(k.w, LoopNext(k.w, l), v_conn))

RECURSIVE CollapseRewrite(_, _, _, _)
CollapseRewrite(k, ls, v_del, v_conn) ==
  IF ls = <<>> \/ k.w.crash THEN k
  ELSE CollapseRewrite(CollapseRewriteLoop(k, Head(ls), v_del, v_conn), Tail(ls),
                       v_del, v_conn)

\* wire edges of a deleted face are logged and killed
RECURSIVE CollapseKillWire(_, _)
CollapseKillWire(w, es) ==
  IF es = <<>> \/ w.crash THEN w
  ELSE LET e == Head(es)
           w1 == IF e \in w.edges /\ RadialSet(w, e) = {}
                 THEN BM_edge_kill(BM_log_edge_removed(w, e), e) ELSE w
       IN  CollapseKillWire(w1, Tail(es))

\* pbvh_kill_vert: the disk edges are logged as removed, then BM_vert_kill
RECURSIVE LogEdgesRemoved(_, _)
LogEdgesRemoved(w, es) ==
  IF es = <<>> \/ w.crash THEN w ELSE LogEdgesRemoved(BM_log_edge_removed(w, Head(es)), Tail(es))
\* a vertex kill that does not log the edges it takes along
KillVertUnlogged(w, v) == IF w.crash THEN w ELSE BM_vert_kill(w, v)
pbvh_kill_vert(w, v) ==
  IF w.crash THEN w ELSE
  BM_vert_kill(LogEdgesRemoved(w, DiskSeq(w, v)), v)

\* corners of a deleted face that lost their last edge leave the mesh
RECURSIVE CollapseKillLoose(_, _, _)
CollapseKillLoose(k, vs, v_del) ==
  IF vs = <<>> \/ k.w.crash THEN k
  ELSE LET v == Head(vs)
           w1 == BM_log_vert_removed(pbvh_bmesh_vert_remove(k.w, v), v)
           k1 == IF v /= v_del /\ v \in k.w.verts /\ DiskEdges(k.w, v) = {}
                 THEN [k EXCEPT !.w = pbvh_kill_vert(w1, v),
                                !.v_conn = IF v = @ THEN NULLV ELSE @,
                                !.dv = Extend(@, v, NULLV)]
                 ELSE k
       IN  CollapseKillLoose(k1, Tail(vs), v_del)

\* the loop over deleted_faces; flagged is the vertex of the loop variable
\* left over from the rewrite loop, which is v_del
RECURSIVE CollapseDeleteFaces(_, _, _)
CollapseDeleteFaces(k, fs, v_del) ==
  IF fs = <<>> \/ k.w.crash THEN k
  ELSE LET f_del == Head(fs)
           v_tri == k.w.fv[f_del]
           ls == FaceLoops(k.w, f_del)
           e_tri == [i \in DOMAIN ls |-> LoopE(k.w, ls[i])]
           w1 == MVSet(k.w, v_del, NeedAll)
           w2 == BM_face_kill(pbvh_bmesh_face_remove(w1, f_del, TRUE, TRUE, TRUE), f_del)
           w3 == CollapseKillWire(w2, e_tri)
       IN  CollapseDeleteFaces(CollapseKillLoose([k EXCEPT !.w = w3], v_tri, v_del),
                               Tail(fs), v_del)

\* normalize_v3 keeps the direction; axis-parallel vectors are made unit
Sign(x) == IF x > 0 THEN 1 ELSE IF x < 0 THEN -1 ELSE 0
normalize_v3(a) ==
  IF Cardinality({i \in 1..3 : a[i] /= 0}) <= 1 THEN <<Sign(a[1]), Sign(a[2]), Sign(a[3])>>
  ELSE a

\* the survivor moves to the midpoint; its fan is flagged and marked dirty
RECURSIVE CollapseFlagFan(_, _, _)
CollapseFlagFan(w, ls, v_conn) ==
  IF ls = <<>> \/ w.crash THEN w
  ELSE LET l == Head(ls)
           v2 == OtherVert(LoopE(w, l), v_conn)
           f_node == pbvh_bmesh_node_from_face(w, l[1])
           w1 == MVSet(w, v2, NeedAll)
       IN  CollapseFlagFan(
             IF f_node = DYNTOPO_NODE_NONE THEN [w1 EXCEPT !.crash = TRUE]
             ELSE NodeSet(w1, f_node, UpdateFlagsFace \cup {PBVH_UpdateBB}),
             Tail(ls), v_conn)

\* the survivor put on the place of the deleted vertex
CollapseSnap(w, v_conn, v_del) ==
  IF w.crash THEN w ELSE
  [BM_log_vert_before_modified(w, v_conn) EXCEPT
     !.co[v_conn] = w.co[v_del],
     !.no[v_conn] = normalize_v3(add_v3(w.no[v_conn], w.no[v_del]))]
CollapseMove(w, v_conn, v_del) ==
  IF w.crash THEN w ELSE
  [BM_log_vert_before_modified(w, v_conn) EXCEPT
     !.co[v_conn] = mid_v3(w.co[v_conn], w.co[v_del]),
     !.no[v_conn] = normalize_v3(add_v3(w.no[v_conn], w.no[v_del]))]
MarkUnlessCrashed(w4, v) == IF w4.crash THEN w4 ELSE MVSet(w4, v, NeedAll)
CollapseFlagSurvivor(w2, v_conn) ==
  IF w2.crash THEN w2 ELSE
  MarkUnlessCrashed(CollapseFlagFan(w2, LoopsOfVert(w2, v_conn), v_conn), v_conn)
KillUnlessCrashed(w3, v_del) == IF w3.crash THEN w3 ELSE pbvh_kill_vert(w3, v_del)
\* the end of the collapse without the entry for v_del in the map
CollapseFinishUnmapped(k, v_del) ==
  [k EXCEPT !.w = KillUnlessCrashed(
                    IF k.v_conn /= NULLV
                    THEN CollapseFlagSurvivor(
                           BM_log_vert_removed(CollapseMove(k.w, k.v_conn, v_del), v_del),
                           k.v_conn)
                    ELSE BM_log_vert_removed(k.w, v_del),
                    v_del)]
CollapseFinish(k, v_del) ==
  [k EXCEPT !.w = KillUnlessCrashed(
                    IF k.v_conn /= NULLV
                    THEN CollapseFlagSurvivor(
                           BM_log_vert_removed(CollapseMove(k.w, k.v_conn, v_del), v_del),
                           k.v_conn)
                    ELSE BM_log_vert_removed(k.w, v_del),
                    v_del),
            !.dv = Extend(@, v_del, k.v_conn)]

\* the stages of pbvh_bmesh_collapse_edge, each on the result of the one before
CollapseTail(k1, v_del) ==
  IF k1.w.crash THEN k1 ELSE CollapseFinish(CollapseDeleteFaces(k1, k1.df, v_del), v_del)
CollapseFans(k0, w5, v_del, v_conn) ==
  CollapseTail(CollapseRewrite([k0 EXCEPT !.w = w5, !.df = <<>>, !.v_conn = v_conn],
                               LoopsOfVert(w5, v_del), v_del, v_conn),
               v_del)
MarkIfUsed(w, v) ==
  IF w.crash THEN w ELSE
  IF LoopsOfVert(w, v) /= <<>> THEN MVSet(w, v, NeedAll) ELSE w
CollapseEdgeKill(k0, w2, e, v_del, v_conn) ==
  CollapseFans(k0,
               MarkIfUsed(MarkIfUsed(BM_edge_kill(BM_log_edge_removed(w2, e), e), v_del), v_conn),
               v_del, v_conn)
CollapseChecked(k0, w0, e, v1, v2) ==
  LET v_del == IF DYNTOPO_MASK(w0, v1) < DYNTOPO_MASK(w0, v2) THEN v1 ELSE v2
      v_conn == IF v_del = v1 THEN v2 ELSE v1
  IN  IF CollapseSeamBlocked(w0, e, v1, v2) THEN [k0 EXCEPT !.w = w0]
      ELSE CollapseEdgeKill(
             k0,
             CollapseKillAdjacent(
               pbvh_bmesh_vert_remove(CollapseInterp(w0, v_del, v_conn), v_del), e),
             e, v_del, v_conn)
pbvh_bmesh_collapse_edge(k0, e, v1, v2) ==
  CollapseChecked(k0, CheckFans(k0.w, <<k0.w.ev1[e], OtherVert(e, k0.w.ev1[e])>>), e, v1, v2)

\* bm_vert_hash_lookup_chain
RECURSIVE bm_vert_hash_lookup_chain(_, _)
bm_vert_hash_lookup_chain(dv, v) ==
  IF v \notin DOMAIN dv THEN v
  ELSE IF dv[v] = NULLV THEN NULLV
  ELSE bm_vert_hash_lookup_chain(dv, dv[v])

\* the iteration without the test of the endpoints' leaves
CollapsePopUnowned(k, min_len) ==
  LET pair == Head(k.heap)
      k1 == [k EXCEPT !.heap = Tail(@)]
      v1 == bm_vert_hash_lookup_chain(k.dv, pair.v1)
      v2 == bm_vert_hash_lookup_chain(k.dv, pair.v2)
      e == {v1, v2}
      rs == RadialSeq(k.w, e)
  IN  IF v1 = NULLV \/ v2 = NULLV \/ v1 = v2 THEN k1
      ELSE IF ~BM_edge_exists(k.w, v1, v2) THEN k1
      ELSE IF Len(rs) > 2 THEN k1
      ELSE IF calc_weighted_edge_collapse(k.w, v1, v2) >= min_len * min_len THEN k1
      ELSE [pbvh_bmesh_collapse_edge(k1, e, v1, v2) EXCEPT !.any = TRUE]

\* one iteration of the pop loop of pbvh_bmesh_collapse_short_edges, after
\* the budget test; the record gains the flag any_collapsed
CollapsePop(k, min_len) ==
  LET pair == Head(k.heap)
      k1 == [k EXCEPT !.heap = Tail(@)]
      v1 == bm_vert_hash_lookup_chain(k.dv, pair.v1)
      v2 == bm_vert_hash_lookup_chain(k.dv, pair.v2)
      e == {v1, v2}
      rs == RadialSeq(k.w, e)
  IN  IF v1 = NULLV \/ v2 = NULLV \/ v1 = v2 THEN k1
      ELSE IF ~BM_edge_exists(k.w, v1, v2) THEN k1
      ELSE IF Len(rs) > 2 THEN k1
      ELSE IF calc_weighted_edge_collapse(k.w, v1, v2) >= min_len * min_len THEN k1
      ELSE IF k.w.vnode[v1] = DYNTOPO_NODE_NONE \/ k.w.vnode[v2] = DYNTOPO_NODE_NONE THEN k1
      ELSE [pbvh_bmesh_collapse_edge(k1, e, v1, v2) EXCEPT !.any = TRUE]

(***************************************************************************)
(* pbvh_split_edges: bulk split of the popped edges, then re-triangulation *)
(* of the faces around them from the pattern table.                        *)
(***************************************************************************)
SPLIT_TAG == "SPLIT_TAG"

SplitNodeUpdateFlag ==
  {PBVH_UpdateBB, PBVH_UpdateNormals, PBVH_UpdateOtherVerts, PBVH_UpdateCurvatureDir,
   PBVH_UpdateDrawBuffers, PBVH_UpdateTris}

\* a table without any pattern
NoPattern(mask) == <<-1>>
\* a table holding only the rows for one cut edge
OneEdgePatterns(mask) ==
  CASE mask = 1 -> <<4, 2, -1, -1, -1>>
    [] mask = 2 -> <<4, -1, 3, -1, -1>>
    [] mask = 4 -> <<4, -1, -1, 0, -1>>
    [] mask = 8 -> <<4, -1, -1, -1, 1>>
    [] OTHER -> <<-1>>
\* splitmap[43][16]
splitmap(mask) ==
  CASE mask = 1 -> <<4, 2, -1, -1, -1>>
    [] mask = 2 -> <<4, -1, 3, -1, -1>>
    [] mask = 4 -> <<4, -1, -1, 0, -1>>
    [] mask = 5 -> <<5, 2, -1, 4, -1, -1>>
    [] mask = 8 -> <<4, -1, -1, -1, 1>>
    [] mask = 9 -> <<5, 2, -1, -1, 0, -1>>
    [] mask = 10 -> <<5, -1, 3, -1, 0, -1>>
    [] mask = 18 -> <<5, -1, 3, -1, -1, 1>>
    [] mask = 20 -> <<5, -1, -1, 4, -1, 1>>
    [] mask = 21 -> <<6, 2, -1, 4, -1, 0, -1>>
    [] mask = 42 -> <<6, -1, 3, -1, 5, -1, 1, -1>>
    [] OTHER -> <<-1>>
SPLITMAP_SIZE == 43

InsertAfter(cyc, i, x) ==
  [j \in 1..(Len(cyc) + 1) |-> IF j <= i THEN cyc[j] ELSE IF j = i + 1 THEN x ELSE cyc[j - 1]]

\* BM_edge_split at the midpoint: e_new = (tv, v_new), e keeps v_old and takes
\* v_new in the slot of tv; every face on e gets v_new between tv and v_old.
\* The attribute block of v_new is interpolated from the blocks of the two
\* endpoints; the MDynTopoVert lies in that block, and the flag bits both
\* endpoints carry are the ones v_new has afterwards
BM_edge_split(w, e, tv) ==
  LET v_old == OtherVert(e, tv)
      v_new == NewVertId(w)
      w1 == BM_vert_create(w, v_new, mid_v3(w.co[tv], w.co[v_old]))
      es == (w.edges \ {e}) \cup {{tv, v_new}, {v_new, v_old}}
      NewCycle(f) ==
        LET cyc == w.fv[f]
            slots == {i \in DOMAIN cyc : {cyc[i], cyc[NextI(Len(cyc), i)]} = e}
        IN  IF slots = {} THEN cyc ELSE InsertAfter(cyc, MinOf(slots), v_new)
  IN  [w1 EXCEPT !.no[v_new] = w.no[tv],
                 !.vmask[v_new] = (w.vmask[tv] + w.vmask[v_old]) \div 2,
                 !.mvflag[v_new] = w.mvflag[tv] \cap w.mvflag[v_old],
                 !.edges = es,
                 !.ehflag = [x \in es |-> IF x \in w.edges THEN w.ehflag[x] ELSE w.ehflag[e]],
                 !.ev1 = [x \in es |-> IF x = {tv, v_new} THEN tv
                                       ELSE IF x = {v_new, v_old} THEN v_new ELSE w.ev1[x]],
                 !.etag = (@ \ {e}) \cup
                            (IF e \in w.etag THEN {{tv, v_new}, {v_new, v_old}} ELSE {}),
                 !.fv = [f \in w.faces |-> NewCycle(f)]]

\* BM_log_edge_split_do: the split and its record, as one event
BM_log_edge_split_do(w, e, tv) ==
  BM_edge_split(LogEvent(w, [op |-> "edge_split", e |-> e, v |-> NewVertId(w), tv |-> tv]),
                e, tv)

\* cycle of a face rotated to start at vertex x
RotateTo(cyc, x) ==
  LET n == Len(cyc)
      i0 == SeqIndex(cyc, x)
  IN  [j \in 1..n |-> cyc[((i0 + j - 2) % n) + 1]]

CycleFrom(cyc, i, len) == [j \in 1..len |-> cyc[((i + j - 2) % Len(cyc)) + 1]]

\* BM_face_split between the loops of v1 and v2: f keeps v1 .. up to the
\* corner before v2 and a new loop at v2; the new face takes v2 .. up to the
\* corner before v1 and a new loop at v1.  Unchanged when the two are adjacent.
BM_face_split(w, f, v1, v2) ==
  LET cyc == w.fv[f]
      n == Len(cyc)
      i1 == SeqIndex(cyc, v1)
      i2 == SeqIndex(cyc, v2)
      len1 == (i2 - i1 + n) % n
      len2 == n - len1
      ring1 == <<v2>> \o CycleFrom(cyc, i1, len1)
      ring2 == <<v1>> \o CycleFrom(cyc, i2, len2)
      first_loop_f1 == ((1 - i1 + n) % n) < len1
      f_new == NewFaceId(w)
      first1 == IF first_loop_f1 THEN cyc[1]
                ELSE IF i2 = 1 THEN cyc[PrevI(n, i2)]
                ELSE IF PrevI(n, i1) = 1 THEN v1
                ELSE v2
      first2 == IF ~first_loop_f1 THEN cyc[1]
                ELSE IF i1 = 1 THEN cyc[PrevI(n, i1)]
                ELSE IF PrevI(n, i2) = 1 THEN v2
                ELSE v1
      w1 == BM_edge_create(w, v1, v2, {})
      w2 == BM_face_create(w1, f_new, RotateTo(ring2, first2), w.fno[f], w.fhflag[f])
  IN  IF i2 = NextI(n, i1) \/ i1 = NextI(n, i2) THEN w
      ELSE [w2 EXCEPT !.fv[f] = RotateTo(ring1, first1)]

\* owner of the midpoint: the first owned face around it, else the owner of
\* v1, else of v2, else the first owned face around v1, v2
FirstOwned(w, fs) ==
  LET hit == {i \in DOMAIN fs : w.fnode[fs[i]] /= DYNTOPO_NODE_NONE}
  IN  IF hit = {} THEN DYNTOPO_NODE_NONE ELSE w.fnode[fs[MinOf(hit)]]
SplitFirstOwnedFace(w, v) == FirstOwned(w, FacesOfVertSeq(w, v))
FirstNode(nis) ==
  LET hit == {i \in DOMAIN nis : nis[i] /= DYNTOPO_NODE_NONE}
  IN  IF hit = {} THEN DYNTOPO_NODE_NONE ELSE nis[MinOf(hit)]
SplitNewVertOwner(w, newv, v1, v2) ==
  FirstNode(<<SplitFirstOwnedFace(w, newv), w.vnode[v1], w.vnode[v2],
              SplitFirstOwnedFace(w, v1), SplitFirstOwnedFace(w, v2)>>)

\* first loop: the faces around each edge lose the scratch bit, with their
\* edges and corners; the corners are flagged
RECURSIVE SplitClearFaces(_, _)
SplitClearFaces(w, fs) ==
  IF fs = <<>> \/ w.crash THEN w
  ELSE LET f == Head(fs)
           ls == FaceLoops(w, f)
           es == {LoopE(w, ls[i]) : i \in DOMAIN ls}
           vs == Range(w.fv[f])
           w1 == [w EXCEPT
                    !.ehflag = [x \in DOMAIN @ |-> IF x \in es THEN @[x] \ {SPLIT_TAG} ELSE @[x]],
                    !.vhflag = [x \in DOMAIN @ |-> IF x \in vs THEN @[x] \ {SPLIT_TAG} ELSE @[x]],
                    !.fhflag[f] = @ \ {SPLIT_TAG}]
       IN  SplitClearFaces(MVSetAll(w1, vs, NeedAll), Tail(fs))

RadialFaces(w, e) == FacesOfLoops(RadialSeq(w, e))

SplitClearEdge(w1, e) ==
  IF w1.crash THEN w1 ELSE
  SplitClearFaces(w1, RadialFaces(w1, e))
RECURSIVE SplitClear(_, _)
SplitClear(w, es) ==
  IF es = <<>> \/ w.crash THEN w
  ELSE SplitClear(
         SplitClearEdge(CheckFans(w, <<w.ev1[Head(es)], OtherVert(Head(es), w.ev1[Head(es)])>>),
                        Head(es)),
         Tail(es))

\* second loop: the edges get the scratch bit, their faces are collected once
RECURSIVE SplitCollectFaces(_, _)
SplitCollectFaces(r, fs) ==
  IF fs = <<>> \/ r.w.crash THEN r
  ELSE LET f == Head(fs)
       IN  SplitCollectFaces(
             IF SPLIT_TAG \in r.w.fhflag[f] THEN r
             ELSE [r EXCEPT !.w.fhflag[f] = @ \cup {SPLIT_TAG}, !.faces = Append(@, f)],
             Tail(fs))

RECURSIVE SplitCollect(_, _)
SplitCollect(r, es) ==
  IF es = <<>> \/ r.w.crash THEN r
  ELSE LET e == Head(es)
           r1 == [r EXCEPT !.w.ehflag[e] = @ \cup {SPLIT_TAG}]
       IN  SplitCollect(SplitCollectFaces(r1, RadialFaces(r1.w, e)), Tail(es))

\* third loop: every collected face is logged as removed
RECURSIVE SplitLogRemoved(_, _)
SplitLogRemoved(w, fs) ==
  IF fs = <<>> \/ w.crash THEN w ELSE SplitLogRemoved(BM_log_face_removed(w, Head(fs)), Tail(fs))

\* fourth loop, one edge; an edge met a second time has lost its bit
SplitEdgeOwner(w2, newv, ni) ==
  IF w2.crash THEN w2 ELSE
  IF ni = DYNTOPO_NODE_NONE \/ ~IsLeaf(w2, ni) THEN w2
  ELSE [NodeSet(w2, ni, SplitNodeUpdateFlag) EXCEPT
          !.nodes[ni].bm_unique_verts = @ \cup {newv}, !.vnode[newv] = ni]
SplitEdgeNew(w2, newv, v1, v2) ==
  IF w2.crash THEN w2 ELSE
  SplitEdgeOwner(w2, newv, SplitNewVertOwner(w2, newv, v1, v2))
SplitEdgeFlag(w1, newv) ==
  IF w1.crash THEN w1 ELSE
  MVSet([w1 EXCEPT !.vhflag[newv] = @ \cup {SPLIT_TAG}], newv, NeedAll)
SplitEdge(w, e) ==
  IF e \notin w.edges THEN w
  ELSE IF SPLIT_TAG \notin w.ehflag[e] THEN w
  ELSE SplitEdgeNew(
         SplitEdgeFlag(
           BM_log_edge_split_do([w EXCEPT !.ehflag[e] = @ \ {SPLIT_TAG}], e, w.ev1[e]),
           NewVertId(w)),
         NewVertId(w), w.ev1[e], OtherVert(e, w.ev1[e]))

RECURSIVE SplitEdges(_, _)
SplitEdges(w, es) ==
  IF es = <<>> \/ w.crash THEN w ELSE SplitEdges(SplitEdge(w, Head(es)), Tail(es))

\* fifth loop: the diagonals of the pattern, cut one after the other; r
\* carries the mesh, the face f2 still to cut and the new faces
SplitDiagonalOwn(w2, ni, v1, v2, newf) ==
  IF w2.crash THEN w2 ELSE
  IF /\ ni /= DYNTOPO_NODE_NONE
     /\ w2.vnode[v1] /= DYNTOPO_NODE_NONE
     /\ w2.vnode[v2] /= DYNTOPO_NODE_NONE
  THEN [NodeSet(w2, ni, SplitNodeUpdateFlag) EXCEPT
          !.nodes[ni].bm_faces = @ \cup {newf}, !.fnode[newf] = ni]
  ELSE w2
SplitDiagonalCut(r, w1, ni, v1, v2, newf, log_edge) ==
  IF newf \notin w1.faces THEN r
  ELSE [w |-> SplitDiagonalOwn(IF log_edge THEN BM_log_edge_added(w1, {v1, v2}) ELSE w1,
                               ni, v1, v2, newf),
        f2 |-> newf, newfaces |-> Append(r.newfaces, newf)]
SplitDiagonal(r, ni, v1, v2) ==
  IF v1 = v2 \/ v1 \notin Range(r.w.fv[r.f2]) \/ v2 \notin Range(r.w.fv[r.f2]) THEN r
  ELSE SplitDiagonalCut(r, BM_face_split(r.w, r.f2, v1, v2), ni, v1, v2, NewFaceId(r.w),
                        ~BM_edge_exists(r.w, v1, v2))
RECURSIVE SplitDiagonals(_, _, _, _, _)
SplitDiagonals(r, ni, vs, pat, j) ==
  IF j >= Len(vs) \/ r.w.crash THEN r
  ELSE SplitDiagonals(IF pat[j + 2] < 0 THEN r
                      ELSE SplitDiagonal(r, ni, vs[j + 1], vs[pat[j + 2] + 1]),
                      ni, vs, pat, j + 1)

SplitEnsureOwned(w1, f) ==
  IF w1.crash THEN w1 ELSE
  IF w1.fnode[f] = DYNTOPO_NODE_NONE THEN BKE_pbvh_bmesh_add_face(w1, f, FALSE, TRUE) ELSE w1
RECURSIVE SplitAddNewFaces(_, _)
SplitAddNewFaces(w, fs) ==
  IF fs = <<>> \/ w.crash THEN w
  ELSE SplitAddNewFaces(BM_log_face_added(SplitEnsureOwned(w, Head(fs)), Head(fs)), Tail(fs))

RECURSIVE SplitMaskBits(_, _, _)
SplitMaskBits(w, cyc, j) ==
  IF j > Len(cyc) THEN 0
  ELSE (IF SPLIT_TAG \in w.vhflag[cyc[j]] THEN 2 ^ (j - 1) ELSE 0) + SplitMaskBits(w, cyc, j + 1)

SplitFaceFinish(r, f) ==
  BM_log_face_added(SplitEnsureOwned(SplitAddNewFaces(r.w, r.newfaces), f), f)
SplitFacePattern(w, f, mask, pat) ==
  IF mask >= SPLITMAP_SIZE THEN w
  ELSE IF pat[1] < 0 \/ pat[1] /= Len(w.fv[f]) THEN w
  ELSE SplitFaceFinish(
         SplitDiagonals([w |-> w, f2 |-> f, newfaces |-> <<>>], w.fnode[f], w.fv[f], pat, 0), f)
SplitFaceMask(w, f, mask) == SplitFacePattern(w, f, mask, splitmap(mask))
SplitFace(w, f) == SplitFaceMask(w, f, SplitMaskBits(w, w.fv[f], 1))

RECURSIVE SplitFaces(_, _)
SplitFaces(w, fs) ==
  IF fs = <<>> \/ w.crash THEN w ELSE SplitFaces(SplitFace(w, Head(fs)), Tail(fs))

SplitCollected(r, edges) ==
  SplitFaces(SplitEdges(SplitLogRemoved(r.w, r.faces), edges), r.faces)
pbvh_split_edges(w, edges) ==
  SplitCollected(SplitCollect([w |-> SplitClear(w, edges), faces |-> <<>>], edges), edges)

\* one iteration of the pop loop of pbvh_bmesh_subdivide_long_edges, after
\* the budget test; k.edges is the buffer handed to pbvh_split_edges
SubdividePop(k) ==
  LET pair == Head(k.heap)
      k1 == [k EXCEPT !.heap = Tail(@)]
      e == {pair.v1, pair.v2}
  IN  IF ~BM_edge_exists(k.w, pair.v1, pair.v2) THEN k1
      ELSE IF k.w.vnode[pair.v1] = DYNTOPO_NODE_NONE
              \/ k.w.vnode[pair.v2] = DYNTOPO_NODE_NONE THEN k1
      ELSE [k1 EXCEPT !.any = TRUE, !.edges = Append(@, e)]

(***************************************************************************)
(* cleanup_valence_3_4, one watched vertex at a time.                      *)
(***************************************************************************)
\* 1.25 as the ratio 5/4, squared
CLEANUP_RADIUS_NUM == 25
CLEANUP_RADIUS_DEN == 16

RECURSIVE Gcd(_, _)
Gcd(a, b) == IF b = 0 THEN a ELSE Gcd(b, a % b)
Abs(x) == IF x < 0 THEN -x ELSE x

\* normal_tri_v3 up to the positive scale: the shortest integer vector of
\* the direction
normal_tri_v3(a, b, c) ==
  LET n == cross_v3(sub_v3(b, a), sub_v3(c, a))
      g == Gcd(Gcd(Abs(n[1]), Abs(n[2])), Abs(n[3]))
  IN  IF g = 0 THEN Zero3 ELSE <<n[1] \div g, n[2] \div g, n[3] \div g>>

\* cos(a1, b1) > cos(a2, b2) for direction vectors; the cosine with a zero
\* vector is 0
CosGreater(a1, b1, a2, b2) ==
  LET d1 == dot_v3(a1, b1)
      d2 == dot_v3(a2, b2)
      m1 == len_squared_v3(a1) * len_squared_v3(b1)
      m2 == len_squared_v3(a2) * len_squared_v3(b2)
  IN  IF d1 > 0 /\ d2 <= 0 THEN TRUE
      ELSE IF d1 <= 0 /\ d2 >= 0 THEN FALSE
      ELSE IF d1 > 0 THEN d1 * d1 * m2 > d2 * d2 * m1
      ELSE d1 * d1 * m2 < d2 * d2 * m1

\* the checks of ls[j] against the earlier entries
RECURSIVE CleanupFanInner(_, _, _, _, _)
CleanupFanInner(w, v, ls, lj, k) ==
  IF k > Len(ls) THEN [bad |-> FALSE, lj |-> lj]
  ELSE LET same == LoopV(w, ls[k]) = LoopV(w, lj)
           movable == LoopV(w, LoopNext(w, lj)) /= v
           lj1 == IF same /\ movable THEN LoopNext(w, lj) ELSE lj
       IN  IF same /\ ~movable THEN [bad |-> TRUE, lj |-> lj]
           ELSE IF ls[k] /= RadialNext(w, RadialNext(w, ls[k])) THEN [bad |-> TRUE, lj |-> lj1]
           ELSE IF ls[k][1] = lj1[1] THEN [bad |-> TRUE, lj |-> lj1]
           ELSE CleanupFanInner(w, v, ls, lj1, k + 1)

\* the walk around v that fills ls[0 .. val-1]
AtVert(w, v, l1) == IF LoopV(w, l1) /= v THEN LoopNext(w, l1) ELSE l1
RECURSIVE CleanupFanWalk(_, _, _, _, _)
RECURSIVE CleanupFanStep(_, _, _, _, _, _)
RECURSIVE CleanupFanChecked(_, _, _, _, _, _)
CleanupFanWalk(w, v, val, l, ls) ==
  IF Len(ls) = val THEN [bad |-> FALSE, ls |-> ls]
  ELSE CleanupFanStep(w, v, val, ls, IF LoopV(w, l) = v THEN LoopNext(w, l) ELSE l,
                      AtVert(w, v, RadialNext(w, LoopPrev(w, l))))
CleanupFanStep(w, v, val, ls, lj, l2) ==
  IF RadialNext(w, l2) = l2 \/ RadialNext(w, RadialNext(w, l2)) /= l2
  THEN [bad |-> TRUE, ls |-> ls]
  ELSE CleanupFanChecked(w, v, val, ls, l2, CleanupFanInner(w, v, ls, lj, 1))
CleanupFanChecked(w, v, val, ls, l2, chk) ==
  IF chk.bad THEN [bad |-> TRUE, ls |-> ls]
  ELSE CleanupFanWalk(w, v, val, l2, Append(ls, chk.lj))

\* v->e->l, moved to the corner at v
CleanupFirstLoop(w, v) ==
  LET l == RadialSeq(w, DiskSeq(w, v)[1])[1]
  IN  IF LoopV(w, l) /= v THEN LoopNext(w, l) ELSE l

RECURSIVE CleanupRemoveFaces(_, _)
CleanupRemoveFaces(w, fs) ==
  IF fs = <<>> \/ w.crash THEN w
  ELSE LET f == Head(fs)
       IN  CleanupRemoveFaces(
             IF w.fnode[f] /= DYNTOPO_NODE_NONE
             THEN pbvh_bmesh_face_remove(w, f, TRUE, TRUE, TRUE) ELSE w,
             Tail(fs))

BKE_pbvh_bmesh_mark_update_valence(w, v) == MVSet(w, v, {NEED_VALENCE})

\* the replacement triangle in leaf n, its normal recomputed
FaceRenormal(w1, f, vs) ==
  IF w1.crash THEN w1 ELSE
  [w1 EXCEPT !.fno[f] = normal_tri_v3(w1.co[vs[1]], w1.co[vs[2]], w1.co[vs[3]])]
CleanupFaceCreate(w, n, vs, example) ==
  FaceRenormal(pbvh_bmesh_face_create(w, n, NewFaceId(w), vs, w.fno[example],
                                      w.fhflag[example], TRUE, FALSE),
               NewFaceId(w), vs)

\* the corners around v in the order the two triangles are cut from
CleanupFlipped(p) ==
  CosGreater(normal_tri_v3(p[1], p[2], p[3]), normal_tri_v3(p[1], p[3], p[4]),
             normal_tri_v3(p[2], p[3], p[4]), normal_tri_v3(p[2], p[4], p[1]))
CleanupCorners(w2, val, ls0) ==
  LET vs0 == [i \in 1..val |-> LoopV(w2, ls0[i])]
  IN  IF val = 4 /\ CleanupFlipped([i \in 1..val |-> w2.co[vs0[i]]])
      THEN [j \in 1..4 |-> vs0[(j % 4) + 1]] ELSE vs0

LogLastFace(w6) ==
  IF w6.crash THEN w6 ELSE
  BM_log_face_added(w6, w6.lastf)
CleanupMake1(vs) == vs[1] /= vs[2] /\ vs[2] /= vs[3] /\ vs[1] /= vs[3]
CleanupTri1(w2, n, vs, example) ==
  IF w2.crash THEN w2 ELSE
  IF CleanupMake1(vs)
  THEN CleanupFaceCreate(MVSetAll(w2, {vs[1], vs[2], vs[3]}, {NEED_VALENCE}), n,
                         <<vs[1], vs[2], vs[3]>>, example)
  ELSE MVSetAll(w2, {vs[1], vs[2], vs[3]}, {NEED_VALENCE})
CleanupTri2(w4, n, val, vs, example, vs3_differs) ==
  IF w4.crash THEN w4 ELSE
  IF val = 4 /\ vs[1] /= vs[3] /\ vs3_differs
  THEN LogLastFace(CleanupFaceCreate(MVSetAll(w4, {vs[1], vs[3], vs[4]}, {NEED_VALENCE}), n,
                                     <<vs[1], vs[3], vs[4]>>, example))
  ELSE w4
CleanupLogTri1(w5, f1, make1) ==
  IF w5.crash THEN w5 ELSE
  IF make1 THEN BM_log_face_added(w5, f1) ELSE w5
CleanupTris(w4, v, n, val, vs, example, vs3_differs) ==
  IF w4.crash THEN w4 ELSE
  pbvh_kill_vert(
    CleanupLogTri1(CleanupTri2(w4, n, val, vs, example, vs3_differs), w4.lastf,
                   CleanupMake1(vs)),
    v)
CleanupFill(w2, v, n, val, vs, example, vs3_differs) ==
  IF w2.crash THEN w2 ELSE
  CleanupTris(CleanupTri1(w2, n, vs, example), v, n, val, vs, example, vs3_differs)
CleanupHole(w2, v, n, val, ls0, vs3_differs) ==
  IF w2.crash THEN w2 ELSE
  CleanupFill(w2, v, n, val, CleanupCorners(w2, val, ls0),
              RadialSeq(w2, DiskSeq(w2, v)[1])[1][1], vs3_differs)
CleanupDetach(w1, v) ==
  IF w1.crash THEN w1 ELSE
  CleanupRemoveFaces(w1, FacesOfVertSeq(w1, v))

\* the removal of v and the one or two triangles that close the hole;
\* vs3_differs is the outcome of the comparisons with the fourth entry of
\* vs, which is never written
CleanupReplace(w, v, n, val, ls0, vs3_differs) ==
  CleanupHole(CleanupDetach(pbvh_bmesh_vert_remove(BM_log_vert_removed(w, v), v), v),
              v, n, val, ls0, vs3_differs)

\* one entry of the watchlist
CleanupWalked(c, v, n, val, w2, walk, vs3_differs) ==
  IF walk.bad THEN [c EXCEPT !.w = w2]
  ELSE [c EXCEPT !.w = CleanupReplace(w2, v, n, val, walk.ls, vs3_differs),
                 !.modified = TRUE]
CleanupBoundary(c, v, n, val, w2, vs3_differs) ==
  IF (w2.mvflag[v] \cap ALL_BOUNDARY) /= {} THEN [c EXCEPT !.w = w2]
  ELSE IF RadialSet(w2, DiskSeq(w2, v)[1]) = {} THEN [c EXCEPT !.w = w2]
  ELSE CleanupWalked(c, v, n, val, w2,
                     CleanupFanWalk(w2, v, val, CleanupFirstLoop(w2, v), <<>>), vs3_differs)
CleanupValence(c, v, n, w1, vs3_differs) ==
  IF w1.valence[v] /= 4 /\ w1.valence[v] /= 3 THEN [c EXCEPT !.w = w1]
  ELSE CleanupBoundary(c, v, n, w1.valence[v], pbvh_check_vert_boundary(w1, v), vs3_differs)
CleanupVert(c, q, v, vs3_differs) ==
  IF v \notin c.w.verts THEN c
  ELSE IF c.w.vnode[v] = DYNTOPO_NODE_NONE THEN c
  ELSE IF CLEANUP_RADIUS_DEN * len_squared_v3v3(c.w.co[v], q.center)
            >= CLEANUP_RADIUS_NUM * q.radius * q.radius
          \/ DiskEdges(c.w, v) = {} THEN c
  ELSE CleanupValence(c, v, c.w.vnode[v],
                      BKE_pbvh_bmesh_check_valence(check_vert_fan_are_tris(c.w, v), v),
                      vs3_differs)

(***************************************************************************)
(* Host entry points for single elements.                                  *)
(***************************************************************************)
InBox(w, n, co) ==
  \A j \in 1..3 : ~(co[j] < w.nodes[n].bmin[j] \/ co[j] >= w.nodes[n].bmax[j])

pbvh_bmesh_vert_create(w, node_index, co, no) ==
  LET v == NewVertId(w)
      w1 == [BM_vert_create(w, v, co) EXCEPT !.no[v] = no, !.mvflag[v] = {}]
      w2 == [w1 EXCEPT !.nodes[node_index].bm_unique_verts = @ \cup {v},
                       !.vnode[v] = node_index]
  IN  BM_log_vert_added(NodeSet(w2, node_index, UpdateFlagsVertCreate), v)

\* BKE_pbvh_vert_create_bmesh without a target leaf: the box test never
\* rejects a leaf, so the first leaf is taken
BKE_pbvh_vert_create_bmesh(w, co, no, node) ==
  LET picked == IF node /= DYNTOPO_NODE_NONE THEN node
                ELSE IF Leaves(w) = {} THEN DYNTOPO_NODE_NONE
                ELSE MinOf(Leaves(w))
      v == NewVertId(w)
  IN  IF picked = DYNTOPO_NODE_NONE
      THEN MVSet(BM_vert_create(w, v, co), v, NeedAll)
      ELSE pbvh_bmesh_vert_create(w, picked, co, no)

\* the leaf BKE_pbvh_face_create_bmesh settles on
FaceCreatePick(w, v_tri, owners) ==
  LET hits == {i \in 1..3 : owners[i] /= DYNTOPO_NODE_NONE}
      boxes == {n \in Leaves(w) : \E j \in 1..3 : InBox(w, n, w.co[v_tri[j]])}
  IN  IF hits /= {} THEN owners[MaxOf(hits)]
      ELSE IF boxes /= {} THEN MinOf(boxes)
      ELSE DYNTOPO_NODE_NONE
FaceCreateNode(w, v_tri) ==
  FaceCreatePick(w, v_tri, [i \in 1..3 |-> SplitFirstOwnedFace(w, v_tri[i])])

FaceCreateIn(w, v_tri, ni) ==
  IF ni = DYNTOPO_NODE_NONE
  THEN bmesh_face_create_edge_log(w, NewFaceId(w), v_tri, FaceNormal(w, v_tri), {})
  ELSE pbvh_bmesh_face_create(w, ni, NewFaceId(w), v_tri, FaceNormal(w, v_tri), {},
                              TRUE, TRUE)
BKE_pbvh_face_create_bmesh(w, v_tri) == FaceCreateIn(w, v_tri, FaceCreateNode(w, v_tri))

(***************************************************************************)
(* BKE_pbvh_bmesh_update_topology: the locals of one call are the record   *)
(* d; its helpers below are the straight-line pieces between two scans.    *)
(***************************************************************************)
QueueOf(center, radius, view_normal, use_frontface, use_mask_cb, limit_len) ==
  [center |-> center, radius |-> radius, view_normal |-> view_normal,
   use_view_normal |-> use_frontface, mask_cb |-> use_mask_cb, limit_len |-> limit_len]

\* EdgeQueueThreadData of the eligible leaves, before the workers start
ThreadData(w) == [n \in ScanLeaves(w) |-> [st |-> "new", edges |-> <<>>, val34 |-> <<>>]]
ThreadSeq(td) == LET ns == SortedSeq(DOMAIN td) IN [i \in DOMAIN ns |-> td[ns[i]]]
\* a driver that does not wait for the workers
NoJoin(td) == TRUE
\* BLI_task_parallel_range returns when every worker has
WorkersJoined(td) == \A n \in DOMAIN td : td[n].st = "done"

\* the throttle of the collapse budget, ratio in hundredths
CollapseRatio(eq, min_len) ==
  LET tot == eq.totedge
      emax == eq.max_elen
  IN  IF tot > 0 /\ min_len > 0 /\ eq.avg_elen > 0
      THEN Min2(Max2((200 * eq.avg_elen) \div (tot * (min_len + emax)), 25), 500)
      ELSE 100
CollapseMaxSteps(eq, min_len) == (DYNTOPO_MAX_ITER * CollapseRatio(eq, min_len)) \div 100

\* (int)(brusharea), pi as 355/113
PI_NUM == 355
PI_DEN == 113
SubdivideMaxSteps(radius, min_len, max_len) ==
  (4 * PI_NUM * radius * radius) \div (PI_DEN * (min_len + max_len) * (min_len + max_len))

\* the watchlist built by hand when CLEANUP runs without SUBDIVIDE
RECURSIVE GatherVerts(_, _, _)
GatherVerts(c, q, vs) ==
  IF vs = <<>> \/ c.w.crash THEN c
  ELSE LET v == Head(vs)
           skip == \/ ~edge_queue_vert_in_sphere(c.w, q, v)
                   \/ (q.use_view_normal /\ dot_v3(c.w.no[v], q.view_normal) < 0)
       IN  GatherVerts(IF skip THEN c ELSE WatchVert(c, v), q, Tail(vs))

RECURSIVE GatherLeaves(_, _, _)
GatherLeaves(c, q, ns) ==
  IF ns = <<>> \/ c.w.crash THEN c
  ELSE LET n == Head(ns)
           c1 == IF PBVH_UpdateTopology \in c.w.nodes[n].flag
                 THEN GatherVerts(c, q, SortedSeq(c.w.nodes[n].bm_unique_verts)) ELSE c
       IN  GatherLeaves(c1, q, Tail(ns))

RECURSIVE UntagVal34(_, _)
UntagVal34(w, vs) ==
  IF vs = <<>> \/ w.crash THEN w
  ELSE UntagVal34(IF Head(vs) \in w.verts THEN MVClear(w, Head(vs), {VALENCE_TEMP}) ELSE w,
                  Tail(vs))

\* the tail of the driver: the update marks are dropped
FinishFlags(w, modified) ==
  [w EXCEPT !.nodes = [n \in DOMAIN @ |->
     IF /\ PBVH_Leaf \in @[n].flag
        /\ PBVH_UpdateTopology \in @[n].flag
        /\ (modified => PBVH_FullyHidden \notin @[n].flag)
     THEN [@[n] EXCEPT !.flag = @ \ {PBVH_UpdateTopology}] ELSE @[n]]]

(***************************************************************************)
(* The meshes the exploration starts from, as BKE_pbvh_build_bmesh leaves  *)
(* them: every face in a leaf, every vertex in the leaf of its first face, *)
(* valence and boundary bits up to date.                                   *)
(***************************************************************************)
EdgesOfTris(tris) ==
  UNION {{{tris[i][1], tris[i][2]}, {tris[i][2], tris[i][3]}, {tris[i][3], tris[i][1]}} :
           i \in DOMAIN tris}

\* leaves are the nodes 0 (alone) or 1..nleaf under the inner node 0
BuildNodes(nleaf, fowner, vowner, boxes) ==
  LET ids == IF nleaf = 1 THEN {0} ELSE 0..nleaf
      IsL(n) == nleaf = 1 \/ n > 0
  IN  [n \in ids |->
         [flag |-> IF IsL(n) THEN {PBVH_Leaf} ELSE {},
          bm_faces |-> {f \in DOMAIN fowner : fowner[f] = n},
          bm_unique_verts |-> {v \in DOMAIN vowner : vowner[v] = n},
          bmin |-> boxes[n + 1][1],
          bmax |-> boxes[n + 1][2]]]

BuildMesh(coords, normals, masks, tris, fowner, nleaf, boxes, min_len, max_len) ==
  LET vs == DOMAIN coords
      fs == DOMAIN tris
      es == EdgesOfTris(tris)
      vowner == [v \in vs |->
                   fowner[MinOf({f \in fs : v \in Range(tris[f])})]]
      w0 == [verts |-> vs, co |-> coords, no |-> normals, vmask |-> masks,
             vhflag |-> [v \in vs |-> {}],
             edges |-> es, ehflag |-> [e \in es |-> {}],
             ev1 |-> [e \in es |-> MinOf(e)], etag |-> {},
             faces |-> fs, fv |-> tris,
             fno |-> [f \in fs |-> cross_v3(sub_v3(coords[tris[f][2]], coords[tris[f][1]]),
                                            sub_v3(coords[tris[f][3]], coords[tris[f][1]]))],
             fhflag |-> [f \in fs |-> {}],
             mvflag |-> [v \in vs |-> {}], valence |-> [v \in vs |-> 0],
             vnode |-> vowner, fnode |-> fowner,
             nodes |-> BuildNodes(nleaf, fowner, vowner, boxes),
             log |-> <<>>, crash |-> FALSE,
             lastv |-> Len(coords), lastf |-> Len(tris),
             bm_min_edge_len |-> min_len, bm_max_edge_len |-> max_len]
  IN  [w0 EXCEPT !.valence = [v \in vs |-> BM_vert_edge_count(w0, v)],
                 !.mvflag = [v \in vs |-> {NEED_DISK_SORT} \cup BoundaryBits(w0, v)]]

Up3(n) == [i \in 1..n |-> <<0, 0, 1>>]
NoMask(n) == [i \in 1..n |-> 0]
BigBox == <<<<-100, -100, -100>>, <<100, 100, 100>>>>

\* 1: one large triangle; 2: one small triangle with a masked corner
Triangle(min_len, max_len, masks) ==
  BuildMesh(<<<<0, 0, 0>>, <<40, 0, 0>>, <<0, 40, 0>>>>, Up3(3), masks,
            <<<<1, 2, 3>>>>, <<0>>, 1, <<BigBox>>, min_len, max_len)
\* 3: a square over two leaves, only its diagonal is long
Square ==
  BuildMesh(<<<<0, 0, 0>>, <<40, 0, 0>>, <<40, 40, 0>>, <<0, 40, 0>>>>, Up3(4), NoMask(4),
            <<<<1, 2, 3>>, <<1, 3, 4>>>>, <<1, 2>>, 2,
            <<BigBox, <<<<-100, -100, -100>>, <<100, 20, 100>>>>,
              <<<<-100, 20, -100>>, <<100, 100, 100>>>>>>, 10, 50)
\* 4: a closed tetrahedron, every vertex of valence 3
Tetrahedron ==
  BuildMesh(<<<<0, 0, 0>>, <<40, 0, 0>>, <<0, 40, 0>>, <<0, 0, 40>>>>,
            <<<<-1, -1, -1>>, <<1, 0, 0>>, <<0, 1, 0>>, <<0, 0, 1>>>>, NoMask(4),
            <<<<1, 3, 2>>, <<1, 2, 4>>, <<2, 3, 4>>, <<1, 4, 3>>>>, <<0, 0, 0, 0>>, 1,
            <<BigBox>>, 10, 100)
\* 5: a valence-3 vertex (2) beside a valence-5 vertex (1); edge 5-6 is
\* short, edge 3-4 is long
Fan35 ==
  BuildMesh(<<<<0, 0, 0>>, <<20, 0, 0>>, <<40, 30, 0>>, <<40, -30, 0>>, <<-30, 3, 0>>,
              <<-30, -3, 0>>>>, Up3(6), NoMask(6),
            <<<<2, 3, 1>>, <<2, 1, 4>>, <<2, 4, 3>>, <<1, 3, 5>>, <<1, 5, 6>>, <<1, 6, 4>>>>,
            <<0, 0, 0, 0, 0, 0>>, 1, <<BigBox>>, 10, 55)
\* 6: a short boundary edge 1-2 whose collapse folds face 1 onto face 2
Pocket ==
  BuildMesh(<<<<0, 0, 0>>, <<6, 0, 0>>, <<0, 30, 0>>, <<30, 30, 12>>, <<30, 0, 0>>>>,
            Up3(5), NoMask(5),
            <<<<2, 3, 4>>, <<1, 4, 3>>, <<2, 1, 3>>, <<1, 5, 4>>>>, <<0, 0, 0, 0>>, 1,
            <<BigBox>>, 10, 100)

\* 8: two small triangles on a short diagonal
Quad ==
  BuildMesh(<<<<0, 0, 0>>, <<10, 0, 0>>, <<10, 10, 0>>, <<0, 10, 0>>>>, Up3(4), NoMask(4),
            <<<<1, 2, 3>>, <<1, 3, 4>>>>, <<0, 0>>, 1, <<BigBox>>, 20, 50)
\* 9: four triangles around a valence-4 vertex at the origin
Fan4 ==
  BuildMesh(<<<<0, 0, 0>>, <<10, 0, 0>>, <<0, 10, 0>>, <<-10, 0, 0>>, <<0, -10, 0>>>>,
            Up3(5), NoMask(5),
            <<<<1, 2, 3>>, <<1, 3, 4>>, <<1, 4, 5>>, <<1, 5, 2>>>>, <<0, 0, 0, 0>>, 1,
            <<BigBox>>, 5, 50)
\* 10: two triangles on a short diagonal 1-3, the four sides long
Rhombus ==
  BuildMesh(<<<<0, 0, 0>>, <<5, -30, 0>>, <<10, 0, 0>>, <<5, 30, 0>>>>, Up3(4), NoMask(4),
            <<<<1, 2, 3>>, <<1, 3, 4>>>>, <<0, 0>>, 1, <<BigBox>>, 20, 50)
\* a mesh with the SEAM flag on the given edges, the boundary bits redone
WithSeams(m, es) ==
  LET m1 == [m EXCEPT !.ehflag = [e \in DOMAIN @ |-> IF e \in es THEN {SEAM} ELSE {}]]
  IN  [m1 EXCEPT !.mvflag = [v \in DOMAIN @ |-> {NEED_DISK_SORT} \cup BoundaryBits(m1, v)]]
\* 11: the pocket with the seam chain 5-1-2-4 over its short edge 1-2
\* 12: the pocket with a seam that is the short edge 1-2 alone
SeamChain == WithSeams(Pocket, {{1, 5}, {1, 2}, {2, 4}})
SeamEnd == WithSeams(Pocket, {{1, 2}})
\* 13: a sheet folded over its edge 1-2: face 1 faces the viewer, face 2,
\* with the longer edges, faces away
Fold ==
  BuildMesh(<<<<0, 0, 0>>, <<30, 0, 0>>, <<15, 20, 0>>, <<15, 60, 5>>>>,
            <<<<0, 0, -1>>, <<0, 0, -1>>, <<0, 0, -1>>, <<0, 0, 1>>>>, NoMask(4),
            <<<<2, 1, 3>>, <<1, 2, 4>>>>, <<0, 0>>, 1, <<BigBox>>, 10, 20)

\* 14: a visible triangle with one long edge in leaf 1, and apart from it
\* a triangle in leaf 2, which is fully hidden
HiddenLeaf ==
  NodeSet(BuildMesh(<<<<0, 0, 0>>, <<60, 0, 0>>, <<30, 10, 0>>,
                      <<0, 50, 0>>, <<20, 50, 0>>, <<0, 70, 0>>>>, Up3(6), NoMask(6),
                    <<<<1, 2, 3>>, <<4, 5, 6>>>>, <<1, 2>>, 2,
                    <<BigBox, <<<<-100, -100, -100>>, <<100, 20, 100>>>>,
                      <<<<-100, 20, -100>>, <<100, 100, 100>>>>>>, 10, 50),
          2, {PBVH_FullyHidden})
\* 15: the fan of scenario 9 with ring vertex 2 lifted out of the plane
Ridge4 ==
  BuildMesh(<<<<0, 0, 0>>, <<10, 0, 8>>, <<0, 10, 0>>, <<-10, 0, 0>>, <<0, -10, 0>>>>,
            Up3(5), NoMask(5), <<<<1, 2, 3>>, <<1, 3, 4>>, <<1, 4, 5>>, <<1, 5, 2>>>>,
            <<0, 0, 0, 0>>, 1, <<BigBox>>, 5, 50)
\* 16: a strip of two quads with a short chord 2-5 across it; the edges
\* 1-2 and 4-5 along its rim are short as well
Strip ==
  BuildMesh(<<<<0, -6, 0>>, <<10, 0, 0>>, <<40, -6, 0>>,
              <<0, 12, 0>>, <<10, 6, 0>>, <<40, 12, 0>>>>, Up3(6), NoMask(6),
            <<<<1, 2, 5>>, <<1, 5, 4>>, <<2, 3, 6>>, <<2, 6, 5>>>>,
            <<0, 0, 0, 0>>, 1, <<BigBox>>, 15, 100)
\* 17: two triangles on a short diagonal 1-3; vertices 2, 3 and 4 are fully
\* masked, so the edges 2-3 and 3-4 have mask weight 0
MaskedSide ==
  BuildMesh(<<<<0, 0, 0>>, <<5, -40, 0>>, <<10, 0, 0>>, <<5, 40, 0>>>>, Up3(4), <<0, 2, 2, 2>>,
            <<<<1, 2, 3>>, <<1, 3, 4>>>>, <<0, 0>>, 1, <<BigBox>>, 30, 100)
\* 18: the fan of scenario 9 with a lower threshold above the length of its
\* spokes, which run from the interior vertex 1 to the rim
ShortSpokes ==
  BuildMesh(<<<<0, 0, 0>>, <<10, 0, 0>>, <<0, 10, 0>>, <<-10, 0, 0>>, <<0, -10, 0>>>>,
            Up3(5), NoMask(5), <<<<1, 2, 3>>, <<1, 3, 4>>, <<1, 4, 5>>, <<1, 5, 2>>>>,
            <<0, 0, 0, 0>>, 1, <<BigBox>>, 12, 50)
\* 19: the long boundary edge 1-4 lies in triangle (1,3,4) of leaf 2; its
\* endpoints are owned by leaf 1, where each has another triangle
Border ==
  BuildMesh(<<<<0, 0, 0>>, <<30, 0, 0>>, <<30, 30, 0>>, <<0, 60, 0>>, <<30, 60, 0>>>>,
            Up3(5), NoMask(5), <<<<1, 2, 3>>, <<4, 3, 5>>, <<1, 3, 4>>>>, <<1, 1, 2>>, 2,
            <<BigBox, <<<<-100, -100, -100>>, <<100, 20, 100>>>>,
              <<<<-100, 20, -100>>, <<100, 100, 100>>>>>>, 10, 50)
\* 20: a triangle of leaf 1 cut in three around its interior vertex 4, and
\* below its side 1-2 a triangle of leaf 2
Inset ==
  BuildMesh(<<<<0, 0, 0>>, <<30, 0, 0>>, <<15, 30, 0>>, <<15, 10, 0>>, <<15, -20, 0>>>>,
            Up3(5), NoMask(5), <<<<1, 2, 4>>, <<2, 3, 4>>, <<3, 1, 4>>, <<2, 1, 5>>>>,
            <<1, 1, 1, 2>>, 2,
            <<BigBox, <<<<-100, 0, -100>>, <<100, 100, 100>>>>,
              <<<<-100, -100, -100>>, <<100, 0, 100>>>>>>, 5, 100)
\* 21, 22: the two triangles after the host took vertex 1 out of its leaf
Scenarios == 1..22
Scenario(i) ==
  CASE i = 1 -> Triangle(10, 20, NoMask(3))
    [] i = 2 -> Triangle(50, 100, <<0, 0, 2>>)
    [] i = 3 -> Square
    [] i = 4 -> Tetrahedron
    [] i = 5 -> Fan35
    [] i = 6 -> Pocket
    [] i = 8 -> Quad
    [] i = 9 -> Fan4
    [] i = 10 -> Rhombus
    [] i = 11 -> SeamChain
    [] i = 12 -> SeamEnd
    [] i = 13 -> Fold
    [] i = 14 -> HiddenLeaf
    [] i = 15 -> Ridge4
    [] i = 16 -> Strip
    [] i = 17 -> MaskedSide
    [] i = 18 -> ShortSpokes
    [] i = 19 -> Border
    [] i = 20 -> Inset
    [] i = 21 -> BKE_pbvh_bmesh_remove_vertex(Triangle(50, 100, NoMask(3)), 1, TRUE)
    [] i = 22 -> BKE_pbvh_bmesh_remove_vertex(Triangle(10, 20, NoMask(3)), 1, TRUE)
    [] OTHER -> Square

\* the arguments the host passes: mode, region, front-face filter, mask
\* callback
ViewNormal == <<0, 0, -1>>
Modes == (SUBSET {PBVH_Collapse, PBVH_Subdivide, PBVH_Cleanup}) \ {{}}
Args(mode, center, radius, use_frontface, use_mask_cb) ==
  [mode |-> mode, center |-> center, radius |-> radius, use_frontface |-> use_frontface,
   use_mask_cb |-> use_mask_cb]
CallArgs(i) ==
  CASE i = 1 -> {Args({PBVH_Subdivide}, <<13, 13, 0>>, 60, ff, FALSE) : ff \in BOOLEAN}
                  \cup {Args({PBVH_Subdivide, PBVH_Cleanup}, <<13, 13, 0>>, 60, FALSE, FALSE)}
    [] i = 2 -> {Args({PBVH_Collapse}, c, 0, FALSE, FALSE) : c \in {<<0, 0, 0>>, <<13, 13, 5>>}}
                  \cup {Args({PBVH_Collapse}, <<0, 0, 0>>, 60, FALSE, mcb) : mcb \in BOOLEAN}
    [] i = 3 -> {Args(m, <<20, 20, 0>>, 30, FALSE, FALSE) :
                   m \in {{PBVH_Subdivide}, {PBVH_Cleanup}, {PBVH_Collapse, PBVH_Subdivide}}}
    [] i = 4 -> {Args(m, <<0, 0, 0>>, 10, FALSE, FALSE) : m \in Modes}
    [] i = 5 -> {Args(m, <<0, 0, 0>>, 30, FALSE, FALSE) :
                   m \in {{PBVH_Collapse}, {PBVH_Cleanup},
                          {PBVH_Collapse, PBVH_Subdivide, PBVH_Cleanup}}}
    [] i = 6 -> {Args(m, <<0, 0, 0>>, 10, FALSE, FALSE) : m \in Modes}
    [] i = 8 -> {Args({PBVH_Collapse}, <<5, 5, 0>>, 30, FALSE, FALSE)}
    [] i = 9 -> {Args({PBVH_Cleanup}, <<0, 0, 0>>, 30, FALSE, FALSE)}
    [] i = 10 -> {Args({PBVH_Collapse}, <<5, 0, 0>>, 40, FALSE, FALSE)}
    [] i = 11 -> {Args({PBVH_Collapse}, <<0, 0, 0>>, 10, FALSE, FALSE)}
    [] i = 12 -> {Args({PBVH_Collapse}, <<0, 0, 0>>, 10, FALSE, FALSE)}
    [] i = 13 -> {Args({PBVH_Subdivide}, <<15, 10, 0>>, 60, TRUE, FALSE)}
    [] i = 14 -> {Args({PBVH_Subdivide}, <<30, 0, 0>>, 60, FALSE, FALSE)}
    [] i = 15 -> {Args({PBVH_Cleanup}, <<0, 0, 0>>, 30, FALSE, FALSE)}
    [] i = 16 -> {Args({PBVH_Collapse}, <<10, 3, 0>>, 30, FALSE, FALSE)}
    [] i = 17 -> {Args({PBVH_Collapse}, <<5, 0, 0>>, 50, FALSE, TRUE)}
    [] i = 18 -> {Args({PBVH_Collapse}, <<0, 0, 0>>, 30, FALSE, FALSE)}
    [] i = 19 -> {Args({PBVH_Subdivide}, <<0, 30, 0>>, 60, FALSE, FALSE)}
    [] i = 20 -> {Args({PBVH_Cleanup}, <<15, 10, 0>>, 40, FALSE, FALSE)}
    [] i = 21 -> {Args({PBVH_Collapse}, <<0, 0, 0>>, 60, FALSE, FALSE)}
    [] i = 22 -> {Args({PBVH_Subdivide}, <<13, 13, 0>>, 60, FALSE, FALSE)}
    [] OTHER -> {Args({PBVH_Collapse, PBVH_Cleanup}, <<20, 20, 0>>, 30, FALSE, FALSE)}
\* 7: the square again, with the host editing single elements between calls
HostScenarios == {7}

(***************************************************************************)
(* The state machine.                                                      *)
(*   w      the mesh, the hierarchy and the log                            *)
(*   pc     where the driver stands; "idle" and "returned" are the states  *)
(*          in which the host may call                                     *)
(*   d      the locals of the running (or last) update_topology call       *)
(*   pre    w as it was when that call began                               *)
(*   prev   the arguments of the call before it                            *)
(*   mut    the phases of the call that changed the topology, in order     *)
(***************************************************************************)
VARIABLES w, pc, d, pre, prev, mut, ncalls, nhost, nsmooth, scen

vars == <<w, pc, d, pre, prev, mut, ncalls, nhost, nsmooth, scen>>

NoCall ==
  [mode |-> {}, q |-> QueueOf(Zero3, 0, ViewNormal, FALSE, FALSE, 0), marked |-> {},
   eq |-> EqInit, td |-> <<>>, dv |-> <<>>, df |-> <<>>, v_conn |-> NULLV,
   step |-> 0, max_steps |-> 0, any |-> FALSE, edges |-> <<>>, modified |-> FALSE,
   vi |-> 1]

Init ==
  /\ scen \in Scenarios
  /\ w = Scenario(scen)
  /\ pc = "idle"
  /\ d = NoCall
  /\ pre = w
  /\ prev = [valid |-> FALSE, mode |-> {}, q |-> NoCall.q, marked |-> {}]
  /\ mut = <<>>
  /\ ncalls = 0
  /\ nhost = 0
  /\ nsmooth = 0

Topology(m) == [verts |-> m.verts, edges |-> m.edges, faces |-> m.faces, fv |-> m.fv]

\* the record of mutating phases after a driver step of the given phase
MutAfter(wn, phase) ==
  IF Topology(wn) = Topology(w) THEN mut
  ELSE IF mut /= <<>> /\ mut[Len(mut)] = phase THEN mut
  ELSE Append(mut, phase)

\* a NULL leaf dereference ends the process
Goto(wn, p) == IF wn.crash THEN "crashed" ELSE p

CanCall == pc \in {"idle", "returned"}

\* the leaves the host marks PBVH_UpdateTopology before it calls
MarkSets(i, m) == IF i = 3 THEN {Leaves(m), {MinOf(Leaves(m))}} ELSE {Leaves(m)}

\* the host marks leaves for update and calls BKE_pbvh_bmesh_update_topology
BeginCall(mode, center, radius, use_frontface, use_mask_cb, marked) ==
  /\ CanCall
  /\ ncalls < MaxCalls
  /\ LET w1 == NodeSetAll(w, marked, {PBVH_UpdateTopology})
     IN  /\ w' = w1
         /\ pre' = w1
         /\ d' = [NoCall EXCEPT
                    !.mode = mode,
                    !.q = QueueOf(center, radius, ViewNormal, use_frontface, use_mask_cb, 0),
                    !.marked = marked,
                    !.td = IF PBVH_Collapse \in mode \/ PBVH_Subdivide \in mode
                           THEN ThreadData(w1) ELSE <<>>]
  /\ prev' = [valid |-> pc = "returned", mode |-> d.mode, q |-> d.q, marked |-> d.marked]
  /\ pc' = IF PBVH_Collapse \in mode THEN "collapse_scan"
           ELSE IF PBVH_Subdivide \in mode THEN "subdivide_scan"
           ELSE "gather"
  /\ mut' = <<>>
  /\ ncalls' = ncalls + 1
  /\ UNCHANGED <<nhost, nsmooth, scen>>

ShortQ == [d.q EXCEPT !.limit_len = w.bm_min_edge_len]
LongQ == [d.q EXCEPT !.limit_len = w.bm_max_edge_len]

\* short_edge_queue_task_cb, first loop
ShortClear(n) ==
  /\ pc = "collapse_scan"
  /\ n \in DOMAIN d.td
  /\ d.td[n].st = "new"
  /\ w' = ClearNodeTags(w, n)
  /\ d' = [d EXCEPT !.td[n].st = "cleared"]
  /\ mut' = MutAfter(w', "collapse")
  /\ UNCHANGED <<pc, pre, prev, ncalls, nhost, nsmooth, scen>>

\* the worker of leaf n returns with its buffers t
WorkerDone(n, t) ==
  /\ w' = t.w
  /\ d' = [d EXCEPT !.td[n] = [st |-> "done", edges |-> t.edges, val34 |-> t.val34]]

\* short_edge_queue_task_cb, second loop
ShortScan(n) ==
  /\ pc = "collapse_scan"
  /\ n \in DOMAIN d.td
  /\ d.td[n].st = "cleared"
  /\ WorkerDone(n, short_edge_queue_task_cb(w, ShortQ, n))
  /\ mut' = MutAfter(w', "collapse")
  /\ UNCHANGED <<pc, pre, prev, ncalls, nhost, nsmooth, scen>>

ShortMerged(c) ==
  /\ w' = c.w
  /\ d' = [d EXCEPT !.eq = c.eq,
                    !.max_steps = CollapseMaxSteps(c.eq, w.bm_min_edge_len),
                    !.step = 0, !.dv = <<>>, !.df = <<>>, !.any = FALSE]

\* short_edge_queue_create after BLI_task_parallel_range has returned, and
\* the step budget of the collapse phase
ShortQueueMerge ==
  /\ pc = "collapse_scan"
  /\ WorkersJoined(d.td)
  /\ ShortMerged(ShortMerge([w |-> w, eq |-> [d.eq EXCEPT !.heap = <<>>]], ShortQ,
                            ThreadSeq(d.td)))
  /\ pc' = "collapse_pop"
  /\ mut' = MutAfter(w', "collapse")
  /\ UNCHANGED <<pre, prev, ncalls, nhost, nsmooth, scen>>

\* the locals after one iteration of a pop loop
Popped(k, p) ==
  /\ w' = k.w
  /\ d' = [d EXCEPT !.eq.heap = k.heap, !.dv = k.dv, !.df = k.df, !.v_conn = k.v_conn,
                    !.any = k.any, !.edges = k.edges, !.step = @ + 1]
  /\ pc' = Goto(k.w, p)

\* one iteration of the loop of pbvh_bmesh_collapse_short_edges
CollapseStep ==
  /\ pc = "collapse_pop"
  /\ d.eq.heap /= <<>>
  /\ d.step <= d.max_steps
  /\ Popped(CollapsePop([w |-> w, heap |-> d.eq.heap, dv |-> d.dv, df |-> d.df,
                          v_conn |-> d.v_conn, any |-> d.any, edges |-> d.edges],
                         w.bm_min_edge_len), "collapse_pop")
  /\ mut' = MutAfter(w', "collapse")
  /\ UNCHANGED <<pre, prev, ncalls, nhost, nsmooth, scen>>

\* the loop ends: heap empty or step++ > max_steps
CollapseDone ==
  /\ pc = "collapse_pop"
  /\ d.eq.heap = <<>> \/ d.step > d.max_steps
  /\ d' = [d EXCEPT !.modified = @ \/ d.any,
                    !.step = IF d.eq.heap = <<>> THEN @ ELSE @ + 1,
                    !.td = IF PBVH_Subdivide \in d.mode THEN ThreadData(w) ELSE <<>>]
  /\ pc' = IF PBVH_Subdivide \in d.mode THEN "subdivide_scan" ELSE "gather"
  /\ UNCHANGED <<w, pre, prev, mut, ncalls, nhost, nsmooth, scen>>

\* long_edge_queue_task_cb, first loop
LongClear(n) ==
  /\ pc = "subdivide_scan"
  /\ n \in DOMAIN d.td
  /\ d.td[n].st = "new"
  /\ w' = ClearNodeTags(w, n)
  /\ d' = [d EXCEPT !.td[n].st = "cleared"]
  /\ mut' = MutAfter(w', "subdivide")
  /\ UNCHANGED <<pc, pre, prev, ncalls, nhost, nsmooth, scen>>

\* the corners of the faces of leaf n the worker will look at
ScanCorners(n) ==
  {l \in UNION {Range(FaceLoops(w, f)) : f \in w.nodes[n].bm_faces \cap w.faces} :
     ~BackFacing(w, LongQ, l[1]) /\ edge_queue_tri_in_sphere(w, LongQ, l[1])}

\* the sets of corners at which the random draw may still exceed 0.75
RECURSIVE SubsetsUpTo(_, _)
SubsetsUpTo(S, k) ==
  IF k <= 0 THEN {{}}
  ELSE LET T == SubsetsUpTo(S, k - 1) IN T \cup {s \cup {x} : s \in T, x \in S}
SmoothDraws(n) == SubsetsUpTo(ScanCorners(n), MaxSmooth - nsmooth)

\* long_edge_queue_task_cb, second loop
LongScan(n, smooth) ==
  /\ pc = "subdivide_scan"
  /\ n \in DOMAIN d.td
  /\ d.td[n].st = "cleared"
  /\ smooth \in SmoothDraws(n)
  /\ WorkerDone(n, long_edge_queue_task_cb(w, LongQ, n, smooth))
  /\ nsmooth' = nsmooth + Cardinality(smooth)
  /\ mut' = MutAfter(w', "subdivide")
  /\ UNCHANGED <<pc, pre, prev, ncalls, nhost, scen>>

LongMerged(c) ==
  /\ w' = c.w
  /\ d' = [d EXCEPT !.eq = c.eq,
                    !.max_steps = SubdivideMaxSteps(d.q.radius, w.bm_min_edge_len,
                                                    w.bm_max_edge_len),
                    !.step = 0, !.any = FALSE, !.edges = <<>>]
  /\ pc' = Goto(c.w, "subdivide_pop")

\* long_edge_queue_create after the join, and the step budget
LongQueueMerge ==
  /\ pc = "subdivide_scan"
  /\ WorkersJoined(d.td)
  /\ LongMerged(LongMerge([w |-> w, eq |-> [d.eq EXCEPT !.heap = <<>>]], LongQ,
                          ThreadSeq(d.td)))
  /\ mut' = MutAfter(w', "subdivide")
  /\ UNCHANGED <<pre, prev, ncalls, nhost, nsmooth, scen>>

\* one iteration of the loop of pbvh_bmesh_subdivide_long_edges
SubdivideStep ==
  /\ pc = "subdivide_pop"
  /\ d.eq.heap /= <<>>
  /\ d.step <= d.max_steps
  /\ Popped(SubdividePop([w |-> w, heap |-> d.eq.heap, dv |-> d.dv, df |-> d.df,
                           v_conn |-> d.v_conn, any |-> d.any, edges |-> d.edges]),
            "subdivide_pop")
  /\ mut' = MutAfter(w', "subdivide")
  /\ UNCHANGED <<pre, prev, ncalls, nhost, nsmooth, scen>>

\* the loop ends and the collected edges are split in bulk
SubdivideSplit ==
  /\ pc = "subdivide_pop"
  /\ d.eq.heap = <<>> \/ d.step > d.max_steps
  /\ w' = pbvh_split_edges(w, d.edges)
  /\ d' = [d EXCEPT !.modified = @ \/ d.any,
                    !.step = IF d.eq.heap = <<>> THEN @ ELSE @ + 1]
  /\ pc' = Goto(w', "gather")
  /\ mut' = MutAfter(w', "subdivide")
  /\ UNCHANGED <<pre, prev, ncalls, nhost, nsmooth, scen>>

Gathered(c) ==
  /\ w' = UntagVal34(c.w, c.eq.val34)
  /\ d' = [d EXCEPT !.eq = c.eq, !.vi = 1]

\* the watchlist built by hand, then the VALENCE_TEMP marks are dropped
CleanupGather ==
  /\ pc = "gather"
  /\ Gathered(IF PBVH_Cleanup \in d.mode /\ PBVH_Subdivide \notin d.mode
              THEN GatherLeaves([w |-> w, eq |-> d.eq], d.q, SortedSeq(Leaves(w)))
              ELSE [w |-> w, eq |-> d.eq])
  /\ pc' = "cleanup"
  /\ mut' = MutAfter(w', "cleanup")
  /\ UNCHANGED <<pre, prev, ncalls, nhost, nsmooth, scen>>

Cleaned(c) ==
  /\ w' = c.w
  /\ d' = [d EXCEPT !.modified = c.modified, !.vi = @ + 1]
  /\ pc' = Goto(c.w, "cleanup")

\* cleanup_valence_3_4, one watched vertex
CleanupStep(vs3_differs) ==
  /\ pc = "cleanup"
  /\ PBVH_Cleanup \in d.mode
  /\ d.vi <= Len(d.eq.val34)
  /\ Cleaned(CleanupVert([w |-> w, modified |-> d.modified], d.q, d.eq.val34[d.vi],
                         vs3_differs))
  /\ mut' = MutAfter(w', "cleanup")
  /\ UNCHANGED <<pre, prev, ncalls, nhost, nsmooth, scen>>

\* the tail of the driver
Finish ==
  /\ pc = "cleanup"
  /\ PBVH_Cleanup \notin d.mode \/ d.vi > Len(d.eq.val34)
  /\ w' = FinishFlags(w, d.modified)
  /\ pc' = "returned"
  /\ UNCHANGED <<d, pre, prev, mut, ncalls, nhost, nsmooth, scen>>

(***************************************************************************)
(* Host calls between two updates.                                         *)
(***************************************************************************)
CanHost == CanCall /\ scen \in HostScenarios /\ nhost < MaxHostOps

HostDone(wn) ==
  /\ w' = wn
  /\ pc' = "idle"
  /\ nhost' = nhost + 1
  /\ UNCHANGED <<d, pre, prev, mut, ncalls, nsmooth, scen>>

HostVertCreate(co, node) ==
  /\ CanHost
  /\ node \in Leaves(w) \cup {DYNTOPO_NODE_NONE}
  /\ HostDone(BKE_pbvh_vert_create_bmesh(w, co, <<0, 0, 1>>, node))

\* the caller passes three distinct vertices that do not form a face yet
HostFaceCreate(v_tri) ==
  /\ CanHost
  /\ Range(v_tri) \subseteq w.verts
  /\ ~BM_face_exists(w, v_tri)
  /\ HostDone(BKE_pbvh_face_create_bmesh(w, v_tri))

HostRemoveFace(f, log_face) ==
  /\ CanHost
  /\ f \in w.faces
  /\ w.fnode[f] /= DYNTOPO_NODE_NONE
  /\ HostDone(BKE_pbvh_bmesh_remove_face(w, f, log_face))

HostRemoveVertex(v, log_vert) ==
  /\ CanHost
  /\ v \in w.verts
  /\ w.vnode[v] /= DYNTOPO_NODE_NONE
  /\ HostDone(BKE_pbvh_bmesh_remove_vertex(w, v, log_vert))

HostAddFace(f, force_tree_walk) ==
  /\ CanHost
  /\ f \in w.faces
  /\ w.fnode[f] = DYNTOPO_NODE_NONE
  /\ HostDone(BKE_pbvh_bmesh_add_face(w, f, TRUE, force_tree_walk))

HostCoords == {<<20, 20, 0>>}
HostTriples == {<<1, 2, 4>>, <<2, 3, 5>>}

Next ==
  \/ \E a \in CallArgs(scen), marked \in MarkSets(scen, w) :
       BeginCall(a.mode, a.center, a.radius, a.use_frontface, a.use_mask_cb, marked)
  \/ \E n \in DOMAIN w.nodes : ShortClear(n)
  \/ \E n \in DOMAIN w.nodes : ShortScan(n)
  \/ ShortQueueMerge
  \/ CollapseStep
  \/ CollapseDone
  \/ \E n \in DOMAIN w.nodes : LongClear(n)
  \/ \E n \in DOMAIN w.nodes : \E smooth \in SmoothDraws(n) : LongScan(n, smooth)
  \/ LongQueueMerge
  \/ SubdivideStep
  \/ SubdivideSplit
  \/ CleanupGather
  \/ \E vs3_differs \in BOOLEAN : CleanupStep(vs3_differs)
  \/ Finish
  \/ \E co \in HostCoords, node \in {DYNTOPO_NODE_NONE, 1} : HostVertCreate(co, node)
  \/ \E v_tri \in HostTriples : HostFaceCreate(v_tri)
  \/ \E f \in w.faces : HostRemoveFace(f, TRUE)
  \/ \E v \in w.verts : HostRemoveVertex(v, TRUE)
  \/ \E f \in w.faces, force \in BOOLEAN : HostAddFace(f, force)

Spec == Init /\ [][Next]_vars

(***************************************************************************)
(* Properties.                                                             *)
(***************************************************************************)
PhaseRank(p) == CASE p = "collapse" -> 1 [] p = "subdivide" -> 2 [] OTHER -> 3
Returned == pc = "returned"
CallLog == SubSeq(w.log, Len(pre.log) + 1, Len(w.log))
AllTriangles(m) == \A f \in m.faces : Len(m.fv[f]) = 3

\* C1: within one call the phases that change the topology come in the
\* order collapse, subdivide, cleanup, and a step of a running call changes
\* the topology only when every scan worker of its phase has finished
C1_PhaseOrder ==
  /\ [](\A i, j \in DOMAIN mut : i < j => PhaseRank(mut[i]) < PhaseRank(mut[j]))
  /\ [][(~CanCall /\ Topology(w') /= Topology(w)) =>
          \A n \in DOMAIN d.td : d.td[n].st = "done"]_vars
C1_Witness == Returned /\ mut = <<"collapse", "subdivide", "cleanup">>

\* C2: a call that starts on a mesh of triangles returns a mesh of triangles
C2_TrianglesPreserved == (Returned /\ AllTriangles(pre)) => AllTriangles(w)
C2_Witness ==
  /\ Returned
  /\ AllTriangles(pre)
  /\ "subdivide" \in Range(mut)
  /\ Cardinality(w.faces) > Cardinality(pre.faces)

\* the side tables and the sets of the leaves tell the same story
OwnerIsLeafOrNone(m, o) == o = DYNTOPO_NODE_NONE \/ (o \in DOMAIN m.nodes /\ IsLeaf(m, o))
FacesOwned(m) ==
  /\ \A f \in m.faces : OwnerIsLeafOrNone(m, m.fnode[f])
  /\ \A n \in DOMAIN m.nodes : m.nodes[n].bm_faces = {f \in m.faces : m.fnode[f] = n}
VertsOwned(m) ==
  /\ \A v \in m.verts : OwnerIsLeafOrNone(m, m.vnode[v])
  /\ \A n \in DOMAIN m.nodes : m.nodes[n].bm_unique_verts = {v \in m.verts : m.vnode[v] = n}

OwnerHasFace(m) ==
  \A v \in m.verts :
    m.vnode[v] /= DYNTOPO_NODE_NONE => \E f \in FacesOfVert(m, v) : m.fnode[f] = m.vnode[v]

\* C4: when a call returns, every vertex owned by a leaf has an incident
\* face owned by that leaf, provided this was so when the call began
C4_OwnerHasFace == (Returned /\ OwnerHasFace(pre)) => OwnerHasFace(w)

NoDuplicateFaces(m) ==
  \A f, g \in m.faces : f /= g => Range(m.fv[f]) /= Range(m.fv[g])

\* C5: a call that starts without two faces on the same three vertices
\* returns without two faces on the same three vertices
C5_NoDuplicateFaces == (Returned /\ NoDuplicateFaces(pre)) => NoDuplicateFaces(w)

ValenceCached(m) ==
  \A v \in m.verts : NEED_VALENCE \notin m.mvflag[v] => m.valence[v] = BM_vert_edge_count(m, v)

\* C6: when a call returns, the cached valence of every vertex without
\* NEED_VALENCE is the number of edges of its disk cycle
C6_ValenceCached == (Returned /\ ValenceCached(pre)) => ValenceCached(w)

(***************************************************************************)
(* Undo of the log: what the log collaborator can rebuild from the events  *)
(* of dyntopo.c, one event at a time, last event first.                    *)
(***************************************************************************)
Shape(m) ==
  [verts |-> m.verts, co |-> Restrict(m.co, m.verts), edges |-> m.edges,
   faces |-> m.faces, fv |-> Restrict(m.fv, m.faces)]
WithoutVert(cyc, v) == SelectSeq(cyc, LAMBDA x : x /= v)
UndoEvent(m, ev) ==
  CASE ev.op = "vert_added" ->
         [m EXCEPT !.verts = @ \ {ev.v}, !.co = Restrict(@, m.verts \ {ev.v})]
    [] ev.op = "vert_removed" ->
         [m EXCEPT !.verts = @ \cup {ev.v}, !.co = Extend(@, ev.v, ev.co)]
    [] ev.op = "vert_modified" ->
         IF ev.v \in m.verts THEN [m EXCEPT !.co[ev.v] = ev.co] ELSE m
    [] ev.op = "edge_added" -> [m EXCEPT !.edges = @ \ {ev.e}]
    [] ev.op = "edge_removed" -> [m EXCEPT !.edges = @ \cup {ev.e}]
    [] ev.op = "face_added" ->
         [m EXCEPT !.faces = @ \ {ev.f}, !.fv = Restrict(@, m.faces \ {ev.f})]
    [] ev.op = "face_removed" ->
         [m EXCEPT !.faces = @ \cup {ev.f}, !.fv = Extend(@, ev.f, ev.vs)]
    [] OTHER ->
         [m EXCEPT !.verts = @ \ {ev.v}, !.co = Restrict(@, m.verts \ {ev.v}),
                   !.edges = {x \in @ : ev.v \notin x} \cup {ev.e},
                   !.fv = [f \in m.faces |-> WithoutVert(@[f], ev.v)]]
RECURSIVE Replay(_, _, _)
Replay(m, evs, i) == IF i = 0 THEN m ELSE Replay(UndoEvent(m, evs[i]), evs, i - 1)

\* C7: undoing the events of a call, last first, on the mesh it returned
\* gives the mesh the call began with
C7_LogReplay == Returned => Replay(Shape(w), CallLog, Len(CallLog)) = Shape(pre)
\* the events do rebuild the mesh of a call whose scan smoothed no vertex
ReplayWithoutSmoothing == (Returned /\ nsmooth = 0 /\ nhost = 0) => Replay(Shape(w), CallLog, Len(CallLog)) = Shape(pre)

Membership(m) ==
  [vnode |-> Restrict(m.vnode, m.verts), fnode |-> Restrict(m.fnode, m.faces),
   sets |-> [n \in DOMAIN m.nodes |-> <<m.nodes[n].bm_faces, m.nodes[n].bm_unique_verts>>]]

\* C8: a call with mode COLLAPSE and radius 0 returns the mesh and the leaf
\* membership it was given
C8_CollapseRadiusZero ==
  (Returned /\ d.mode = {PBVH_Collapse} /\ d.q.radius = 0) =>
    (Shape(w) = Shape(pre) /\ Membership(w) = Membership(pre))

\* C9: a CLEANUP call that follows a CLEANUP call with the same region and
\* the same marked leaves returns the mesh it was given
C9_CleanupIdempotent ==
  (/\ Returned
   /\ prev.valid
   /\ prev.mode = {PBVH_Cleanup}
   /\ d.mode = {PBVH_Cleanup}
   /\ prev.q = d.q
   /\ prev.marked = d.marked) => Shape(w) = Shape(pre)

EdgeLenSq(m, e) == LET a == MinOf(e) IN len_squared_v3v3(m.co[a], m.co[OtherVert(e, a)])
InRegion(m, q) == \A v \in m.verts : edge_queue_vert_in_sphere(m, q, v)

\* C10: a SUBDIVIDE call on a mesh of triangles inside the region, without
\* the front-face filter and with steps to spare, returns no edge longer than max_len * sqrt(1.2) and
\* keeps every vertex it was given
C10_SubdivideBound ==
  (/\ Returned
   /\ d.mode = {PBVH_Subdivide}
   /\ AllTriangles(pre)
   /\ InRegion(pre, d.q)
   /\ ~d.q.use_view_normal
   /\ d.step <= d.max_steps) =>
    /\ \A e \in w.edges :
         EVEN_EDGELEN_DEN * EdgeLenSq(w, e)
           <= EVEN_EDGELEN_NUM * w.bm_max_edge_len * w.bm_max_edge_len
    /\ pre.verts \subseteq w.verts


\* the edge whose collapse comes first in a log: pbvh_bmesh_collapse_edge
\* logs the removal of e before that of any other edge
FirstCollapsed(log) ==
  LET ks == {k \in DOMAIN log : log[k].op = "edge_removed"}
  IN  IF ks = {} THEN {} ELSE {log[MinOf(ks)].e}
SharedEdges(m) == {e \in m.edges : Cardinality(RadialSet(m, e)) = 2}
TwoTrianglesOn(m, e) ==
  /\ Cardinality(m.verts) = 4
  /\ Cardinality(m.faces) = 2
  /\ AllTriangles(m)
  /\ e \in SharedEdges(m)

\* C11: a COLLAPSE call on two triangles sharing an edge E shorter than
\* min_len, in which E is collapsed, returns a mesh of exactly 2 vertices and
\* no face
C11_SharedEdgeCollapse ==
  (/\ Returned
   /\ d.mode = {PBVH_Collapse}
   /\ \E e \in pre.edges :
        /\ TwoTrianglesOn(pre, e)
        /\ EdgeLenSq(pre, e) < pre.bm_min_edge_len * pre.bm_min_edge_len
        /\ FirstCollapsed(CallLog) = {e}) =>
    (Cardinality(w.verts) = 2 /\ w.faces = {})


\* the vertex cleanup_valence_3_4 replaces in this step, if any: the
\* replacement begins with the log event of its removal
NewEvents == SubSeq(w'.log, Len(w.log) + 1, Len(w'.log))
CleanupReplaces(v) ==
  /\ pc = "cleanup"
  /\ d.vi <= Len(d.eq.val34)
  /\ v = d.eq.val34[d.vi]
  /\ d'.vi = d.vi + 1
  /\ \E k \in DOMAIN NewEvents : NewEvents[k].op = "vert_removed" /\ NewEvents[k].v = v
Neighbours(m, v) == {OtherVert(e, v) : e \in DiskEdges(m, v)}
FanReplaced(v) ==
  LET fan == FacesOfVert(w, v)
      made == w'.faces \ w.faces
  IN  /\ v \notin w'.verts
      /\ fan \cap w'.faces = {}
      /\ Cardinality(made) = Cardinality(DiskEdges(w, v)) - 2
      /\ \A f \in made :
           /\ Range(w'.fv[f]) \subseteq Neighbours(w, v)
           /\ w'.fnode[f] = w.vnode[v]
           /\ f \in w'.nodes[w.vnode[v]].bm_faces
FourFan(m) ==
  /\ Cardinality(m.faces) = 4
  /\ Cardinality(m.verts) = 5
  /\ AllTriangles(m)
  /\ \E v \in m.verts : FacesOfVert(m, v) = m.faces

\* C12: a cleanup step that replaces a vertex V of valence 4 (3) removes V
\* and its fan and leaves exactly 2 (1) new triangles over V's neighbours in
\* V's leaf; a CLEANUP call on a fan of four triangles returns 2 triangles
C12_CleanupReplacesFan ==
  /\ [][\A v \in w.verts : CleanupReplaces(v) => FanReplaced(v)]_vars
  /\ []((Returned /\ d.mode = {PBVH_Cleanup} /\ FourFan(pre)) => Cardinality(w.faces) = 2)


\* the edge pbvh_bmesh_collapse_edge collapses in this step, if any
Collapses(e) == pc = "collapse_pop" /\ FirstCollapsed(NewEvents) = {e}
HasOtherSeam(m, v, e) == \E e2 \in DiskEdges(m, v) \ {e} : SEAM \in m.ehflag[e2]
SeamKept(e) ==
  \A v_del \in e \ w'.verts : \A v_conn \in (e \ {v_del}) \cap w'.verts :
    \A s \in Neighbours(w, v_del) \ {v_conn} :
      SEAM \in w.ehflag[{v_del, s}] =>
        ({v_conn, s} \in w'.edges /\ SEAM \in w'.ehflag[{v_conn, s}])

\* C13: a collapse step collapses a SEAM edge only if each endpoint has
\* another SEAM edge, and the survivor then has a SEAM edge to every vertex
\* the deleted endpoint had a SEAM edge to
C13_SeamPreserved ==
  [][\A e \in w.edges :
       (Collapses(e) /\ SEAM \in w.ehflag[e]) =>
         (/\ \A v \in e : HasOtherSeam(w, v, e)
          /\ SeamKept(e))]_vars


\* an edge with faces, all of them facing away from the viewer
AllBackFacing(m, q, e) ==
  /\ RadialSet(m, e) /= {}
  /\ \A l \in RadialSet(m, e) : BackFacing(m, q, l[1])
HeapEdges == {{d.eq.heap[i].v1, d.eq.heap[i].v2} : i \in DOMAIN d.eq.heap}

\* C14: with the front-face filter on, the queue a scan has built holds no
\* edge whose faces all face away from the viewer, and such an edge is
\* still in the mesh when the call returns
C14_FrontFaceOnly ==
  /\ (pc \in {"collapse_pop", "subdivide_pop"} /\ d.step = 0 /\ d.q.use_view_normal) =>
       \A e \in HeapEdges \cap w.edges : ~AllBackFacing(w, d.q, e)
  /\ (Returned /\ d.q.use_view_normal) =>
       \A e \in pre.edges : AllBackFacing(pre, d.q, e) => e \in w.edges


\* mesh, annotations and membership without the log
MeshState(m) == [m EXCEPT !.log = <<>>]
Marked(m, marked) == NodeSetAll(m, marked, {PBVH_UpdateTopology})
\* the state the first call of the process began with
FirstPre == Marked(Scenario(scen), prev.marked)
\* the second call of the process was given the state and the arguments
\* of the first
SameAsFirstCall ==
  /\ ncalls = 2
  /\ nhost = 0
  /\ prev.valid
  /\ prev.mode = d.mode
  /\ prev.q = d.q
  /\ prev.marked = d.marked
  /\ MeshState(pre) = MeshState(FirstPre)

\* C15: a call that begins with the state and the arguments an earlier call
\* of the process began with returns the state that call returned; here
\* the earlier call is the first and the state it returned, marked again,
\* is the state the second began with
C15_Deterministic ==
  (Returned /\ SameAsFirstCall) => MeshState(Marked(w, d.marked)) = MeshState(pre)


\* the call created, killed or moved an element
CallChanged == Shape(w) /= Shape(pre) \/ CallLog /= <<>>

\* C16: update_topology returns true exactly when the call created, killed
\* or moved a vertex, an edge or a face
C16_ModifiedIffChanged == Returned => (d.modified <=> CallChanged)


\* a step of a scan worker: the driver stays in the scan
WorkerStep == pc \in {"collapse_scan", "subdivide_scan"} /\ pc' = pc
Annotation(m) == [mvflag |-> m.mvflag, valence |-> m.valence]

\* C17: a step of a scan worker changes nothing of the shared state but
\* vertex positions and edge tags: topology, leaf membership and vertex
\* annotations stay as they are
C17_WorkersReadOnly ==
  [][WorkerStep =>
       (/\ Topology(w') = Topology(w)
        /\ Membership(w') = Membership(w)
        /\ Annotation(w') = Annotation(w)
        /\ [w' EXCEPT !.co = w.co, !.etag = w.etag] = w)]_vars


\* C18: the heap the merge has built holds each edge at most once
C18_HeapNoDuplicates ==
  (pc \in {"collapse_pop", "subdivide_pop"} /\ d.step = 0) =>
    Cardinality(HeapEdges) = Len(d.eq.heap)


\* C19: in the collapse loop and in the subdivide loop the number of
\* candidates popped so far (step) never exceeds max_steps
C19_PopsWithinBudget ==
  pc \in {"collapse_pop", "subdivide_pop"} => d.step <= d.max_steps


\* the vertex v at co sits in a leaf whose box holds co when there is such a
\* leaf, and its owner entry and the leaves' unique-vertex sets agree
PlacedByBox(m, v, co) ==
  /\ (\E n \in Leaves(m) : InBox(m, n, co)) =>
       (m.vnode[v] \in Leaves(m) /\ InBox(m, m.vnode[v], co))
  /\ \A n \in Leaves(m) : v \in m.nodes[n].bm_unique_verts <=> m.vnode[v] = n

\* a host step that a vert_create call without a target leaf produces
CreatesUntargeted(co) ==
  /\ pc = "idle"
  /\ nhost' = nhost + 1
  /\ w' = BKE_pbvh_vert_create_bmesh(w, co, <<0, 0, 1>>, DYNTOPO_NODE_NONE)

\* C20: vert_create without a target leaf puts the new vertex in a leaf
\* whose box contains its position whenever there is one, owner entry and
\* unique-vertex set in agreement
C20_VertCreateByBox ==
  [][\A co \in HostCoords :
       CreatesUntargeted(co) => PlacedByBox(w', NewVertId(w), co)]_vars


\* faces whose side-table entry names no node or a node that is not a leaf
CorruptFaces(m) ==
  {f \in m.faces : m.fnode[f] = DYNTOPO_NODE_NONE \/ ~IsLeaf(m, m.fnode[f])}
MutationPhase == pc \in {"collapse_pop", "subdivide_pop", "cleanup"}

\* C21: a mutation phase never kills a face whose side-table entry names
\* no leaf: the phase is to stop when it meets one, the face left in place
C21_CorruptFaceAborts ==
  [][MutationPhase => CorruptFaces(w) \subseteq w'.faces]_vars


\* leaves carrying the UPDATE_TOPOLOGY mark
MarkedLeaves(m) == {n \in Leaves(m) : PBVH_UpdateTopology \in m.nodes[n].flag}

\* C22: when update_topology returns, no leaf that was marked
\* UPDATE_TOPOLOGY on entry still carries the mark, modified or not
C22_MarksCleared ==
  Returned => MarkedLeaves(pre) \cap MarkedLeaves(w) = {}


\* the candidate at the top of the collapse heap, its endpoints looked up in
\* the deleted-vertices map
PoppedV1 == bm_vert_hash_lookup_chain(d.dv, Head(d.eq.heap).v1)
PoppedV2 == bm_vert_hash_lookup_chain(d.dv, Head(d.eq.heap).v2)
\* the step collapses the popped candidate and one endpoint outlives it
CollapsesPopped ==
  /\ pc = "collapse_pop"
  /\ d.eq.heap /= <<>>
  /\ Collapses({PoppedV1, PoppedV2})
  /\ {PoppedV1, PoppedV2} \cap w'.verts /= {}
RetainedOf(v_conn, v_del) == v_conn \in w'.verts /\ v_del \notin w'.verts

\* C23: a collapse of (v1, v2) retains the endpoint with the higher mask
\* and deletes the other; with equal masks v2 is retained and v1 deleted
C23_SurvivorByMask ==
  [][CollapsesPopped =>
       IF DYNTOPO_MASK(w, PoppedV1) > DYNTOPO_MASK(w, PoppedV2)
       THEN RetainedOf(PoppedV1, PoppedV2)
       ELSE RetainedOf(PoppedV2, PoppedV1)]_vars


\* the two triangles a cleanup step has cut from the ring of a valence-4
\* vertex: the first is (q0, q1, q2), the second (q0, q2, q3)
MadeFaces == w'.faces \ w.faces
CutsQuad(v) ==
  /\ CleanupReplaces(v)
  /\ Cardinality(DiskEdges(w, v)) = 4
  /\ Cardinality(MadeFaces) = 2
QuadRing ==
  LET f1 == MinOf(MadeFaces)
      f2 == CHOOSE f \in MadeFaces : f /= f1
  IN  [j \in 1..4 |-> w'.co[IF j < 4 THEN w'.fv[f1][j] ELSE w'.fv[f2][3]]]

\* C24: the two triangles that replace a valence-4 vertex are cut along the
\* diagonal whose two triangle normals have the larger dot product
C24_SmootherDiagonal ==
  [][\A v \in w.verts : CutsQuad(v) =>
       ~CosGreater(normal_tri_v3(QuadRing[2], QuadRing[3], QuadRing[4]),
                   normal_tri_v3(QuadRing[2], QuadRing[4], QuadRing[1]),
                   normal_tri_v3(QuadRing[1], QuadRing[2], QuadRing[3]),
                   normal_tri_v3(QuadRing[1], QuadRing[3], QuadRing[4]))]_vars


\* the candidate at the top of the collapse heap is an edge of the mesh
\* that has n loops around it
PoppedEdgeHasLoops(n) ==
  /\ pc = "collapse_pop"
  /\ d.eq.heap /= <<>>
  /\ BM_edge_exists(w, PoppedV1, PoppedV2)
  /\ Len(RadialSeq(w, {PoppedV1, PoppedV2})) = n

\* C25: a popped collapse candidate whose edge has 0, 1, or 3 or more loops
\* is skipped and the mesh stays as it is; only edges with exactly 2 loops
\* are collapsed
C25_ManifoldOnly ==
  [][\A n \in 0..4 : (PoppedEdgeHasLoops(n) /\ n /= 2) => Topology(w') = Topology(w)]_vars


\* the boundary classes of the endpoints of e, worked out on the mesh m,
\* allow its collapse: no corner, the same boundary bits on both sides
ClassesCompatible(m, e) ==
  /\ \A v \in e : BoundaryBits(m, v) \cap ALL_CORNER = {}
  /\ \A v1, v2 \in e : BoundaryBits(m, v1) \cap ALL_BOUNDARY = BoundaryBits(m, v2) \cap ALL_BOUNDARY

\* C26: no collapse is performed on an edge whose endpoints, on the mesh as
\* it is when the candidate is popped, differ in boundary class or include
\* a corner
C26_BoundaryClassAtPop ==
  [][\A e \in w.edges : Collapses(e) => ClassesCompatible(w, e)]_vars


\* C27: an edge whose mask weight is 0 is never in the collapse queue,
\* whether the direct scan or the recursive expansion met it
C27_ZeroWeightSkipped ==
  (pc = "collapse_pop" /\ d.step = 0) =>
    \A e \in HeapEdges \cap w.edges : maskcb_get(w, d.q, e) /= 0


\* the collapse criterion: mask weight positive and the mask-weighted
\* squared length below the lower threshold squared
CollapseCriterion(m, q, e) ==
  /\ maskcb_get(m, q, e) /= 0
  /\ ShortWeighted(m, q, e) < ShortUnit * q.limit_len * q.limit_len
ShortBuffered == UNION {Range(d.td[n].edges) : n \in DOMAIN d.td}

\* C28: every edge in a worker's scratch buffer during the collapse scan,
\* seeded from a face or added by the recursive expansion, satisfies the
\* collapse criterion
C28_BufferedAreShort ==
  pc = "collapse_scan" => \A e \in ShortBuffered \cap w.edges : CollapseCriterion(w, ShortQ, e)


\* the number of pushes of the workers of the running scan
RECURSIVE PushCount(_)
PushCount(ns) ==
  IF ns = {} THEN 0
  ELSE LET n == CHOOSE x \in ns : TRUE IN Len(d.td[n].edges) + PushCount(ns \ {n})
ScanRunning == pc \in {"collapse_scan", "subdivide_scan"}
QueueBuilt == pc \in {"collapse_pop", "subdivide_pop"} /\ d.step = 0

\* C29: within one scan every edge is pushed to a scratch buffer once only,
\* and when the queue has been built no edge of the mesh carries the tag
C29_TagOncePerScan ==
  /\ ScanRunning => PushCount(DOMAIN d.td) = Cardinality(ShortBuffered)
  /\ QueueBuilt => w.etag \cap w.edges = {}


\* the owner the midpoint of an edge is to get: that of v1, else that of
\* v2, else that of a face around the midpoint, v1 or v2, else none
FaceOwnersAround(m, vs) ==
  {m.fnode[f] : f \in {g \in m.faces : Range(m.fv[g]) \cap vs /= {}}} \ {DYNTOPO_NODE_NONE}
MidpointOwners(m0, m1, newv, v1, v2) ==
  IF m0.vnode[v1] /= DYNTOPO_NODE_NONE THEN {m0.vnode[v1]}
  ELSE IF m0.vnode[v2] /= DYNTOPO_NODE_NONE THEN {m0.vnode[v2]}
  ELSE IF FaceOwnersAround(m1, {newv, v1, v2}) /= {} THEN FaceOwnersAround(m1, {newv, v1, v2})
  ELSE {DYNTOPO_NODE_NONE}
SplitEvents == {k \in DOMAIN NewEvents : NewEvents[k].op = "edge_split"}

\* C30: the midpoint created on edge (v1, v2) by the subdivide pass is owned
\* by v1's leaf, else by v2's, else by that of a face around it, and is in
\* the unique-vertex set of that leaf and of no other
C30_MidpointOwner ==
  [][pc = "subdivide_pop" =>
       \A k \in SplitEvents :
         LET newv == NewEvents[k].v
             v1 == NewEvents[k].tv
             v2 == OtherVert(NewEvents[k].e, v1)
         IN  /\ w'.vnode[newv] \in MidpointOwners(w, w', newv, v1, v2)
             /\ \A n \in Leaves(w') :
                   newv \in w'.nodes[n].bm_unique_verts <=> w'.vnode[newv] = n]_vars

\* the bulk split as it stands when the loop of the pops has ended: the
\* faces collected by the first loops, and the mesh after the edges were cut
SplitReady == pc = "subdivide_pop" /\ (d.eq.heap = <<>> \/ d.step > d.max_steps)
SplitGathered == SplitCollect([w |-> SplitClear(w, d.edges), faces |-> <<>>], d.edges)
SplitCut == SplitEdges(SplitLogRemoved(SplitGathered.w, SplitGathered.faces), d.edges)
\* the mask stored in f->head.index: bit i for a tagged i-th edge
EdgeBit(m, f, i) ==
  IF SPLIT_TAG \in m.ehflag[{m.fv[f][i], m.fv[f][NextI(Len(m.fv[f]), i)]}] THEN 2 ^ (i - 1) ELSE 0
EdgeMask(m, f) == EdgeBit(m, f, 1) + EdgeBit(m, f, 2) + EdgeBit(m, f, 3)
\* the index the triangulation loop reads the table with
TableIndex(m, f) == SplitMaskBits(m, m.fv[f], 1)

\* C31: every face collected by the bulk split has its pattern looked up with
\* the mask in 0..7 whose bit i says that the i-th edge of the face was tagged
C31_PatternIndexIsEdgeMask ==
  (SplitReady /\ ~SplitCut.crash) =>
    \A i \in DOMAIN SplitGathered.faces :
      /\ TableIndex(SplitCut, SplitGathered.faces[i]) \in 0..7
      /\ TableIndex(SplitCut, SplitGathered.faces[i])
           = EdgeMask(SplitGathered.w, SplitGathered.faces[i])

(***************************************************************************)
(* The pattern table on its own: one triangle, every choice of the edges   *)
(* cut by the edge-split loop and every position of the first loop of the  *)
(* enlarged face, then the triangulation loop one table column at a time.  *)
(***************************************************************************)
\* the one face of the triangle
TableFace == MinOf(Triangle(10, 20, NoMask(3)).faces)
TableEdgeSeqs ==
  {<<{1, 2}>>, <<{2, 3}>>, <<{1, 3}>>, <<{1, 2}, {2, 3}>>, <<{2, 3}, {1, 3}>>,
   <<{1, 2}, {1, 3}>>, <<{1, 2}, {2, 3}, {1, 3}>>}
TableFirsts(es) == 0..(2 + Len(es))

\* the triangle after the first four loops of pbvh_split_edges on es, seen
\* from the corner `first` of the enlarged face
TableGathered(es) ==
  SplitCollect([w |-> SplitClear(Triangle(10, 20, NoMask(3)), es), faces |-> <<>>], es)
TableCutEdges(r, es) == SplitEdges(SplitLogRemoved(r.w, r.faces), es)
TableEnlarged(es, first) ==
  [TableCutEdges(TableGathered(es), es) EXCEPT
     !.fv[TableFace] = CycleFrom(@, first + 1, Len(@))]

ProducibleMasks ==
  {SplitMaskBits(TableEnlarged(es, first), TableEnlarged(es, first).fv[TableFace], 1) :
     <<es, first>> \in {x \in TableEdgeSeqs \X (0..5) : x[2] \in TableFirsts(x[1])}}

TableInit ==
  /\ \E es \in TableEdgeSeqs : \E first \in TableFirsts(es) :
       /\ w = TableEnlarged(es, first)
       /\ d = [k |-> Len(es), mask |-> -1, pat |-> <<>>, vs |-> <<>>, j |-> 0,
               f2 |-> TableFace, newfaces |-> <<>>, tried |-> <<>>]
  /\ pc = "table_lookup"
  /\ pre = w
  /\ prev = [valid |-> FALSE, mode |-> {}, q |-> NoCall.q, marked |-> {}]
  /\ mut = <<>>
  /\ ncalls = 0
  /\ nhost = 0
  /\ nsmooth = 0
  /\ scen = 0

\* the mask of the tagged corners, the row of the table, its length test
TableLookup ==
  /\ pc = "table_lookup"
  /\ d' = [d EXCEPT !.mask = SplitMaskBits(w, w.fv[TableFace], 1),
                    !.pat = splitmap(SplitMaskBits(w, w.fv[TableFace], 1)),
                    !.vs = w.fv[TableFace]]
  /\ pc' = IF d'.mask >= SPLITMAP_SIZE \/ d'.pat[1] < 0 \/ d'.pat[1] /= Len(w.fv[TableFace])
           THEN "table_skipped" ELSE "table_cut"
  /\ UNCHANGED <<w, pre, prev, mut, ncalls, nhost, nsmooth, scen>>

TableCutResult ==
  IF d.pat[d.j + 2] < 0 THEN [w |-> w, f2 |-> d.f2, newfaces |-> d.newfaces]
  ELSE SplitDiagonal([w |-> w, f2 |-> d.f2, newfaces |-> d.newfaces], w.fnode[TableFace],
                     d.vs[d.j + 1], d.vs[d.pat[d.j + 2] + 1])

\* one column j of the row: skipped when negative, else one BM_face_split on
\* the piece the previous cut returned
TableCut ==
  /\ pc = "table_cut"
  /\ d.j < Len(d.vs)
  /\ w' = TableCutResult.w
  /\ d' = [d EXCEPT !.f2 = TableCutResult.f2, !.newfaces = TableCutResult.newfaces,
                    !.j = @ + 1,
                    !.tried = IF d.pat[d.j + 2] < 0 THEN @
                              ELSE Append(@, {d.vs[d.j + 1], d.vs[d.pat[d.j + 2] + 1]})]
  /\ UNCHANGED <<pc, pre, prev, mut, ncalls, nhost, nsmooth, scen>>

\* the pieces are handed to their leaf and logged
TableFinish ==
  /\ pc = "table_cut"
  /\ d.j >= Len(d.vs)
  /\ w' = SplitFaceFinish([w |-> w, f2 |-> d.f2, newfaces |-> d.newfaces], TableFace)
  /\ pc' = "table_done"
  /\ UNCHANGED <<d, pre, prev, mut, ncalls, nhost, nsmooth, scen>>

TableNext == TableLookup \/ TableCut \/ TableFinish

TableSpec == TableInit /\ [][TableNext]_vars

Midpoints(m) == {v \in m.verts : SPLIT_TAG \in m.vhflag[v]}

\* C32: for a triangle with k = 1, 2 or 3 cut edges, whichever they are and
\* wherever the first loop of the enlarged face is, the table row is a
\* pattern of 3+k corners, each of its diagonals is cut (on the piece the
\* previous cut returned) and has a midpoint at one end, and k+1 triangles
\* remain; every index no such face produces holds -1
C32_TableCoversTriangles ==
  /\ pc = "table_lookup" =>
       /\ splitmap(SplitMaskBits(w, w.fv[TableFace], 1))[1] = 3 + d.k
       /\ Len(w.fv[TableFace]) = 3 + d.k
       /\ \A mask \in (0..(SPLITMAP_SIZE - 1)) \ ProducibleMasks : splitmap(mask)[1] = -1
  /\ pc \in {"table_cut", "table_done"} =>
       /\ Len(d.newfaces) = Len(d.tried)
       /\ \A i \in DOMAIN d.tried : d.tried[i] \cap Midpoints(w) /= {}
  /\ pc = "table_done" =>
       /\ Len(d.tried) = d.k
       /\ Cardinality(w.faces) = d.k + 1
       /\ \A f \in w.faces : Len(w.fv[f]) = 3
  /\ pc /= "table_skipped"

\* all three edges cut and the first loop at a midpoint: four triangles
C32_Witness ==
  pc = "table_done" /\ d.k = 3 /\ d.mask = 21 /\ Cardinality(w.faces) = 4

\* the chain walk with a bound on its steps; "cycle" when the bound runs out
RECURSIVE ChainWalk(_, _, _)
ChainWalk(dv, v, fuel) ==
  IF v \notin DOMAIN dv THEN v
  ELSE IF dv[v] = NULLV THEN NULLV
  ELSE IF fuel = 0 THEN "cycle"
  ELSE ChainWalk(dv, dv[v], fuel - 1)

\* the map holds exactly the vertices killed since the phase began, and the
\* walk from any vertex ends on nothing or on a vertex of the mesh
ChainsEnd(m, c) ==
  /\ DOMAIN c.dv = pre.verts \ m.verts
  /\ \A v \in pre.verts :
       ChainWalk(c.dv, v, Cardinality(DOMAIN c.dv)) \in m.verts \cup {NULLV}
CandidatesResolve(m, c) ==
  \A i \in DOMAIN c.eq.heap :
    /\ bm_vert_hash_lookup_chain(c.dv, c.eq.heap[i].v1) \in m.verts \cup {NULLV}
    /\ bm_vert_hash_lookup_chain(c.dv, c.eq.heap[i].v2) \in m.verts \cup {NULLV}

\* C33: in the collapse phase the map of deleted vertices has no cycle: a
\* vertex becomes a key when it is killed, a key is never written again, and
\* the chain walk from both ends of every candidate ends on NONE or on a
\* vertex that was not killed
C33_DeletedMapAcyclic ==
  [][(pc = "collapse_pop" /\ pc' = "collapse_pop") =>
       /\ \A v \in DOMAIN d.dv : v \in DOMAIN d'.dv /\ d'.dv[v] = d.dv[v]
       /\ (DOMAIN d'.dv) \ (DOMAIN d.dv) = w.verts \ w'.verts
       /\ ChainsEnd(w', d')
       /\ CandidatesResolve(w', d')]_vars

\* two vertices were killed and a candidate still waiting names one of them
C33_Witness ==
  /\ pc = "collapse_pop"
  /\ Cardinality(DOMAIN d.dv) >= 2
  /\ \E i \in DOMAIN d.eq.heap : {d.eq.heap[i].v1, d.eq.heap[i].v2} \cap DOMAIN d.dv /= {}
  /\ \E v \in DOMAIN d.dv : d.dv[v] /= NULLV

\* the calls of pbvh_bmesh_vert_other_node_find made while the corners vs of
\* a face of leaf f_node are checked: the mesh at each call and its vertex
RECURSIVE FindCallsCorners(_, _, _, _)
FindCallsCorners(m, f_node, vs, acc) ==
  IF vs = <<>> \/ m.crash THEN acc
  ELSE FindCallsCorners(
         FaceRemoveCheckVert(m, f_node, Head(vs), TRUE), f_node, Tail(vs),
         IF /\ pbvh_bmesh_node_vert_use_count_at_most(m, f_node, Head(vs), 2) = 1
            /\ pbvh_bmesh_node_from_vert(m, Head(vs)) = f_node
         THEN acc \cup {[m |-> m, v |-> Head(vs)]} ELSE acc)
\* the same over the faces the cleanup takes out of their leaves, in turn
RECURSIVE FindCallsFaces(_, _, _)
FindCallsFaces(m, fs, acc) ==
  IF fs = <<>> \/ m.crash THEN acc
  ELSE IF m.fnode[Head(fs)] = DYNTOPO_NODE_NONE \/ ~IsLeaf(m, m.fnode[Head(fs)])
       THEN FindCallsFaces(m, Tail(fs), acc)
       ELSE FindCallsFaces(pbvh_bmesh_face_remove(m, Head(fs), TRUE, TRUE, TRUE), Tail(fs),
                           FindCallsCorners(m, m.fnode[Head(fs)], m.fv[Head(fs)], acc))
\* the mesh of a cleanup step when the fan of v is about to be detached
CleanupDetaching(m, v) ==
  pbvh_bmesh_vert_remove(
    BM_log_vert_removed(
      pbvh_check_vert_boundary(
        BKE_pbvh_bmesh_check_valence(check_vert_fan_are_tris(m, v), v), v), v), v)
CleanupFindCalls(v) ==
  FindCallsFaces(CleanupDetaching(w, v), FacesOfVertSeq(CleanupDetaching(w, v), v), {})

OwnedFacesOfVertSeq(m, v) ==
  SelectSeq(FacesOfVertSeq(m, v), LAMBDA f : m.fnode[f] /= DYNTOPO_NODE_NONE)
\* the result is NONE or a leaf, not the owner of v, with a face at v, and
\* it is the result the faces that have an owner give by themselves
OtherLeafFound(m, v) ==
  LET r == pbvh_bmesh_vert_other_node_find(m, v)
  IN  /\ \/ r = DYNTOPO_NODE_NONE
         \/ /\ IsLeaf(m, r)
            /\ r /= m.vnode[v]
            /\ \E f \in FacesOfVert(m, v) : m.fnode[f] = r
      /\ r = FirstOtherNode(m, m.vnode[v], OwnedFacesOfVertSeq(m, v))

\* C34: wherever the valence cleanup calls it, vert_other_leaf_find(V) gives
\* NONE or a leaf other than V's owner that owns a face at V, and a face at V
\* that has no owner (removed from its leaf, not yet killed) never decides it
C34_OtherLeafIgnoresUnowned ==
  [][\A v \in w.verts : CleanupReplaces(v) =>
       \A c \in CleanupFindCalls(v) : OtherLeafFound(c.m, c.v)]_vars

\* the vertices a collapse step has to flag: the surviving endpoint, the
\* corners of every triangle the step made or destroyed, and the fan of the
\* surviving endpoint
CollapseSurvivors == {PoppedV1, PoppedV2} \cap w'.verts
CollapseTouched ==
  CollapseSurvivors
    \cup UNION {Range(w'.fv[f]) : f \in w'.faces \ w.faces}
    \cup UNION {Range(w.fv[f]) : f \in w.faces \ w'.faces}
    \cup UNION {Range(w'.fv[f]) :
                  f \in UNION {FacesOfVert(w', v) : v \in CollapseSurvivors}}

\* C35: after a collapse the three dirty flags are set on the surviving
\* endpoint, on the corners of every triangle made or destroyed by it, and
\* on every vertex of the fan of the surviving endpoint
C35_CollapseFlagsNeighbourhood ==
  [][(CollapsesPopped /\ ~w'.crash) =>
       \A v \in CollapseTouched \cap w'.verts : NeedAll \subseteq w'.mvflag[v]]_vars

(***************************************************************************)
(* surface_smooth_v_safe at the grain of its three compare-and-swap        *)
(* writes: the scan workers of two leaves smooth a corner the leaves       *)
(* share.  pc maps each worker to "read", "cas1", "cas2", "cas3" (the      *)
(* write it is about to make) or "done"; d holds the vertex and each       *)
(* worker's locals.                                                        *)
(***************************************************************************)
SmoothWorkers == {1, 2}
SmoothInputs ==
  {[scen |-> 3, v |-> 1], [scen |-> 3, v |-> 3], [scen |-> 19, v |-> 1],
   [scen |-> 19, v |-> 3], [scen |-> 19, v |-> 4], [scen |-> 20, v |-> 1],
   [scen |-> 20, v |-> 2]}

SmoothInit ==
  /\ \E s \in SmoothInputs :
       /\ scen = s.scen
       /\ w = Scenario(s.scen)
       /\ d = [v |-> s.v,
               loc |-> [n \in SmoothWorkers |-> [old |-> Zero3, new |-> Zero3]]]
  /\ pc = [n \in SmoothWorkers |-> "read"]
  /\ pre = w
  /\ prev = [valid |-> FALSE, mode |-> {}, q |-> NoCall.q, marked |-> {}]
  /\ mut = <<>>
  /\ ncalls = 0
  /\ nhost = 0
  /\ nsmooth = 0

\* the worker walks the disk of v, averages the tangents and keeps the
\* position it read and the position it wants; without an edge, at a corner
\* or without a neighbour of its class it returns
SmoothRead(n) ==
  /\ pc[n] = "read"
  /\ w' = IF DiskEdges(w, d.v) = {} THEN w ELSE pbvh_check_vert_boundary(w, d.v)
  /\ d' = [d EXCEPT !.loc[n] = [old |-> w.co[d.v],
                                new |-> surface_smooth_v_safe(w, d.v).co[d.v]]]
  /\ pc' = [pc EXCEPT ![n] = IF surface_smooth_v_safe(w, d.v).co = w'.co THEN "done"
                             ELSE "cas1"]
  /\ UNCHANGED <<pre, prev, mut, ncalls, nhost, nsmooth, scen>>

\* atomic_cas_float on coordinate pc[n]: written only if it still holds the
\* value the worker read; the result is not looked at
CasIndex(p) == CASE p = "cas1" -> 1 [] p = "cas2" -> 2 [] OTHER -> 3
SmoothCas(n) ==
  /\ pc[n] \in {"cas1", "cas2", "cas3"}
  /\ w' = IF w.co[d.v][CasIndex(pc[n])] = d.loc[n].old[CasIndex(pc[n])]
          THEN [w EXCEPT !.co[d.v][CasIndex(pc[n])] = d.loc[n].new[CasIndex(pc[n])]]
          ELSE w
  /\ pc' = [pc EXCEPT ![n] = CASE @ = "cas1" -> "cas2" [] @ = "cas2" -> "cas3"
                                [] OTHER -> "done"]
  /\ UNCHANGED <<d, pre, prev, mut, ncalls, nhost, nsmooth, scen>>

SmoothNext == \E n \in SmoothWorkers : SmoothRead(n) \/ SmoothCas(n)

SmoothSpec == SmoothInit /\ [][SmoothNext]_vars

SmoothedOnce(m, v) == surface_smooth_v_safe(m, v)
SequentialPositions ==
  {SmoothedOnce(pre, d.v).co[d.v], SmoothedOnce(SmoothedOnce(pre, d.v), d.v).co[d.v]}

\* C36: when two scan workers have smoothed the same vertex, its position is
\* the one that one smoothing step, or two steps one after the other, would
\* have given: no mix of coordinates of different workers, no partial offset
C36_SmoothingSerializable ==
  (\A n \in SmoothWorkers : pc[n] = "done") => w.co[d.v] \in SequentialPositions

\* the events of one step, by kind
FaceEvents(op) == {k \in DOMAIN NewEvents : NewEvents[k].op = op}
LoggedFace(op, f) == \E k \in FaceEvents(op) : NewEvents[k].f = f
LoggedEdge(op, e) == \E k \in DOMAIN NewEvents : NewEvents[k].op = op /\ NewEvents[k].e = e
LoggedVert(op, v) == \E k \in DOMAIN NewEvents : NewEvents[k].op = op /\ NewEvents[k].v = v
\* the two edges an atomic split leaves at its new vertex
SplitHalves == {{NewEvents[k].v, x} : <<k, x>> \in SplitEvents \X w'.verts}
InPhase == pc \in {"collapse_pop", "subdivide_pop", "gather", "cleanup"}
\* a face that leaves its leaf in this step is logged in this step; one that
\* had left it earlier was logged then
RemovedBefore(f) ==
  IF w.fnode[f] /= DYNTOPO_NODE_NONE THEN LoggedFace("face_removed", f)
  ELSE \E k \in DOMAIN w.log : w.log[k].op = "face_removed" /\ w.log[k].f = f
ReaddedAfter(k) ==
  \E j \in FaceEvents("face_added") : j > k /\ NewEvents[j].f = NewEvents[k].f

PopReady == pc \in {"collapse_pop", "subdivide_pop"} /\ d.eq.heap /= <<>> /\ d.step <= d.max_steps
\* the endpoints the loop works with: redirected through deleted_verts in the
\* collapse loop, as queued in the subdivide loop
PoppedEnd(v) == IF pc = "collapse_pop" THEN bm_vert_hash_lookup_chain(d.dv, v) ELSE v
StaleV1 == PoppedEnd(Head(d.eq.heap).v1)
StaleV2 == PoppedEnd(Head(d.eq.heap).v2)
NoEdgeBetween == {StaleV1, StaleV2} \notin w.edges
UnownedEnd ==
  \E v \in {StaleV1, StaleV2} : v \in w.verts /\ w.vnode[v] = DYNTOPO_NODE_NONE
StaleCandidate == PopReady /\ (NoEdgeBetween \/ UnownedEnd)

\* C38: a popped candidate without an edge between its (redirected)
\* endpoints, or with an endpoint owned by no leaf, is skipped: the
\* iteration changes neither the mesh, the leaf membership nor the log,
\* splits and collapses nothing, and the loop goes on with the next candidate
C38_StaleCandidateSkipped ==
  [][StaleCandidate =>
       /\ w' = w
       /\ d'.dv = d.dv /\ d'.df = d.df /\ d'.edges = d.edges /\ d'.any = d.any
       /\ d'.eq.heap = Tail(d.eq.heap)
       /\ pc' = pc]_vars

\* the collapse loop is about to pop an existing edge with an endpoint that
\* no leaf owns
C38_Witness ==
  /\ StaleCandidate
  /\ pc = "collapse_pop"
  /\ UnownedEnd /\ ~NoEdgeBetween


(***************************************************************************)
(* The valence watchlist and its mark.                                     *)
(***************************************************************************)
NoDuplicates(q) == \A i, j \in DOMAIN q : q[i] = q[j] => i = j
MarkedVerts(m) == {v \in m.verts : VALENCE_TEMP \in m.mvflag[v]}

\* C39: during a call no vertex is on the valence watchlist twice, and when
\* the call has returned no vertex of the mesh carries VALENCE_TEMP, the
\* midpoints made by the splits of the call included
C39_WatchlistMarksCleared ==
  /\ NoDuplicates(d.eq.val34)
  /\ Returned => MarkedVerts(w) = {}


(***************************************************************************)
(* Vertex positions outside the long-edge scan.                            *)
(***************************************************************************)
\* the position a vertex that outlives the step has after it: the survivor
\* of a collapse lies midway between its place and that of the vertex
\* collapsed into it, every other vertex where it was
PlaceAfter(v) ==
  IF /\ CollapsesPopped
     /\ ~w'.crash
     /\ v \in {PoppedV1, PoppedV2}
     /\ {PoppedV1, PoppedV2} \cap w'.verts = {v}
  THEN LET v_del == CHOOSE x \in {PoppedV1, PoppedV2} : x /= v
       IN  mid_v3(w.co[v], w.co[v_del])
  ELSE w.co[v]

\* C40: outside the long-edge scan of a call with SUBDIVIDE no step moves a
\* vertex that outlives it, except that a collapse puts its survivor midway
\* between its place and the place of the collapsed vertex; so a call
\* without SUBDIVIDE moves the collapse survivors only
C40_OnlySurvivorsMove ==
  [][(pc /= "subdivide_scan" \/ PBVH_Subdivide \notin d.mode) =>
       \A v \in w.verts \cap w'.verts : w'.co[v] = PlaceAfter(v)]_vars

\* a call without SUBDIVIDE has collapsed one edge and its survivor lies
\* midway between the two places of the call's start
C40_Witness ==
  /\ pc = "collapse_pop"
  /\ PBVH_Subdivide \notin d.mode
  /\ \E v_del \in DOMAIN d.dv :
       /\ DOMAIN d.dv = {v_del}
       /\ d.dv[v_del] \in w.verts
       /\ w.co[d.dv[v_del]] = mid_v3(pre.co[d.dv[v_del]], pre.co[v_del])
       /\ w.co[d.dv[v_del]] /= pre.co[d.dv[v_del]]

=============================================================================
